---- MODULE Spec2Model ----
(***************************************************************************)
(* Verification model of replication-manager.                              *)
(*                                                                         *)
(*   SpecProxy      cluster.refreshProxies over the proxy list             *)
(*   SpecHeartbeat  ReplicationManager.Heartbeat / HeartbeatPeerSplitBrain *)
(*   SpecFailover   checkfailed and the failover/switchover executor       *)
(*   SpecConfig     GetClusterConfig (immutable / saved configuration)     *)
(*   SpecStart      StartCluster                                           *)
(*   SpecRun        the tasks of Run and the API router                    *)
(*   SpecLogin      loginHandler                                           *)
(*   SpecPeerRequest  the HTTP requests of one heartbeat round             *)
(*   SpecDiscover   DiscoverClusters                                       *)
(*   SpecToken      validateTokenMiddleware                                *)
(*                                                                         *)
(* Every specification shares the variables below; each one initialises    *)
(* the variables of the other parts to a fixed value and leaves them       *)
(* unchanged.                                                              *)
(***************************************************************************)
EXTENDS Integers, Sequences, FiniteSets, TLC

VARIABLES
    \* ---- proxies of one cluster (part_002)
    Proxies,        \* cluster.Proxies: sequence of proxy records
    MaxFail,        \* cluster.Conf.MaxFail
    passes,         \* number of refreshProxies passes made so far
    lastErr,        \* history: for each proxy, did Refresh fail in the last pass
    errRun,         \* history: for each proxy, consecutive failed Refresh calls
    failoverCalls,  \* number of failoverProxies calls made so far
    failoverLog,    \* history: the Failover calls of the last failoverProxies
    \* ---- supervisor (part_000)
    Confs,          \* repman.Confs: cluster name -> configuration
    ClusterList,    \* repman.ClusterList: sequence of cluster names
    Clusters,       \* repman.Clusters: cluster name -> cluster object
    startIdx,       \* position of Run's start loop in ClusterList
    Arbitration,    \* repman.Conf.Arbitration
    ArbitrationPeerHosts, \* repman.Conf.ArbitrationPeerHosts, split on ","
    cfgGroup,       \* package variable cfgGroup
    SplitBrain,     \* repman.SplitBrain
    Status,         \* repman.Status
    exit,           \* repman.exit
    hbpc,           \* position of the main loop inside Heartbeat
    bcksplitbrain,  \* Heartbeat's local copy of SplitBrain
    peerIdx,        \* index of the next peer of Heartbeat's loop
    hbReplies,      \* history: what each peer answered in the current round
    hbLast,         \* history: how the last call of Heartbeat went
    \* ---- one cluster's failure detection and executor (cluster package)
    servers,        \* cluster.servers: server -> [State, FailCount]
    master,         \* cluster.master
    failoverCtr,    \* cluster.failoverCtr
    sinceFailover,  \* time since the last failover, saturating at MaxFailTime
    Interactive,    \* cluster.conf.Interactive
    FailLimit,      \* cluster.conf.FailLimit
    FailTime,       \* cluster.conf.FailTime (time-between-failovers)
    RplChecks,      \* cluster.conf.RplChecks
    IgnoredHosts,   \* db-servers-ignored-hosts
    IsSplitBrain,   \* cluster.IsSplitBrain
    runs,           \* executor runs in progress (holders of the action lock)
    execPc,         \* step of the executor run
    candidate,      \* the successor the election chose
    events,         \* codes emitted by the last tick, request or executor step
    tickBit,        \* history: parity of the number of monitor ticks
    tpc,            \* position of testFailOverNoRplChecksNoSemiSync
    SaveMasterURL,  \* the test's SaveMasterURL
    testStart,      \* history: what the test's checkfailed call found
    testResult,     \* what the test returned
    \* ---- configuration loading (part_000, InitConfig and GetClusterConfig)
    fistRead,       \* the configuration read: flags and the sections of the files
    CommandLineFlag, \* repman.CommandLineFlag: the flags given on the command line
    ConfRewrite,    \* clusterconf.ConfRewrite (monitoring-save-config)
    cpc,            \* position of InitConfig
    ImmuableMap,    \* InitConfig's ImmuableMap
    Conf,           \* repman.Conf: the configuration after the default section
    ImmuableFlagMaps, \* repman.ImmuableFlagMaps[cluster]
    DynamicFlagMaps,  \* repman.DynamicFlagMaps[cluster]
    VersionConfs,   \* repman.VersionConfs[cluster]: ConfImmuable, ConfInit
    \* ---- the tasks of Run (part_000) and what the API served (api.go)
    rpc,            \* position of the main task in Run
    apiserver,      \* the API server task has been started (line 843)
    isStarted,      \* repman.isStarted
    Cloud18,        \* repman.Conf.Cloud18
    rangeList,      \* the slice the start loop of Run ranges over (line 892)
    initialList,    \* history: repman.ClusterList as InitConfig left it
    gpc,            \* the git-pull task: "none" until Run starts it
    spc,            \* the signal task: "none", "waiting", "stopping", "done"
    monitorTasks,   \* history: the cluster name of every monitor task started
    stopped,        \* the clusters the signal task called Stop on
    accesses,       \* history: the accesses made to Clusters and SplitBrain
    served,         \* history: the last reply the API server sent
    \* ---- the API: login attempts and routing (api.go)
    UserAuthTry,    \* repman.UserAuthTry: username -> [Try, Time]
    now,            \* time.Now(), in minutes
    loginLog,       \* history: the user, time and answer of each login attempt
    \* ---- one heartbeat round seen from the HTTP client (part_000)
    MonitoringTicker, \* repman.Conf.MonitoringTicker, in seconds
    peerBehaviour,  \* what each peer of the list does with a request
    reqIdx,         \* position of the round in the peer list
    reqpc,          \* "idle", "pending" (inside client.Do / ReadAll), "done"
    waited,         \* seconds since the pending request was sent
    reqResults,     \* what HeartbeatPeerSplitBrain returned for each peer
    \* ---- DiscoverClusters (part_000)
    FirstRead,      \* the keys of the configuration read, as written
    dpc,            \* "idle" before DiscoverClusters, "done" after
    discoveries,    \* DiscoverClusters' discoveries slice
    discovered,     \* the string DiscoverClusters returned
    \* ---- validateTokenMiddleware (api.go)
    mwLog           \* history: what the middleware did with each request

varsProxy == <<Proxies, passes, lastErr, errRun, failoverCalls, failoverLog>>
varsStart == <<Confs, ClusterList, startIdx>>
varsCluster == <<servers, master, failoverCtr, Interactive, FailLimit, FailTime,
                 RplChecks, IgnoredHosts, IsSplitBrain>>
varsExec == <<runs, execPc, candidate>>
varsTest == <<tpc, SaveMasterURL, testStart, testResult>>
varsFo == <<varsCluster, varsExec, sinceFailover, events, tickBit, varsTest>>
varsConfig == <<fistRead, CommandLineFlag, ConfRewrite, cpc, ImmuableMap, Conf,
                ImmuableFlagMaps, DynamicFlagMaps, VersionConfs>>
varsRun == <<rpc, apiserver, isStarted, Cloud18, rangeList, initialList, gpc, spc,
             monitorTasks, stopped, accesses, served>>
varsApi == <<UserAuthTry, now, loginLog>>
varsPeer == <<MonitoringTicker, peerBehaviour, reqIdx, reqpc, waited, reqResults>>
varsDisc == <<FirstRead, dpc, discoveries, discovered>>
varsMw == <<mwLog>>
varsHb == <<Arbitration, ArbitrationPeerHosts, cfgGroup, SplitBrain, Status, exit,
            hbpc, bcksplitbrain, peerIdx, hbReplies, hbLast>>

(***************************************************************************)
(* Bounds                                                                  *)
(***************************************************************************)
MaxProxies == 2
MaxMaxFail == 3
MaxPasses == 4
MaxFailovers == 1

(***************************************************************************)
(* Proxy states (cluster package constants used by part_002)               *)
(***************************************************************************)
stateSuspect == "Suspect"
stateFailed == "Failed"
stateProxyRunning == "ProxyRunning"

Cookies == {"waitstart", "waitstop", "restart"}

\* A proxy that newProxyList adds to the list without assigning State
NewProxyNoState(cookies) ==
    [State |-> "", PrevState |-> "", FailCount |-> 0, Cookies |-> cookies]

\* A proxy as newProxyList leaves it: State suspect, FailCount and PrevState
\* at their zero values.  The cookies are files of the proxy's data directory.
NewProxy(cookies) ==
    [State |-> stateSuspect, PrevState |-> "", FailCount |-> 0, Cookies |-> cookies]

\* The body of the loop of refreshProxies for one proxy; err is TRUE when
\* pr.Refresh() returned an error.
RefreshOne(pr, err, maxFail) ==
    LET fc == pr.FailCount + 1
        p1 == IF ~err
                THEN [pr EXCEPT !.FailCount = 0,
                                !.State = stateProxyRunning,
                                !.Cookies = @ \ {"waitstart"}]
                ELSE IF fc >= maxFail
                       THEN [pr EXCEPT !.State = stateFailed,
                                       !.Cookies = @ \ {"waitstop", "restart"}]
                       ELSE [pr EXCEPT !.State = stateSuspect]
    IN  IF p1.PrevState # p1.State THEN [p1 EXCEPT !.PrevState = p1.State] ELSE p1

\* One pass of refreshProxies: every proxy of the list is refreshed in order,
\* errs[i] being the outcome of the i-th proxy's Refresh.
refreshProxies ==
    /\ passes < MaxPasses
    /\ \E errs \in [1..Len(Proxies) -> BOOLEAN] :
         /\ Proxies' = [i \in 1..Len(Proxies) |-> RefreshOne(Proxies[i], errs[i], MaxFail)]
         /\ lastErr' = errs
         /\ errRun' = [i \in 1..Len(Proxies) |-> IF errs[i] THEN errRun[i] + 1 ELSE 0]
    /\ passes' = passes + 1
    /\ UNCHANGED <<failoverCalls, failoverLog>>

\* pr.Failover() as failoverProxies sees it: the call, on the proxy at
\* position i of the list, and whether that proxy is in state failed
FailoverCall(prs, i) ==
    [proxy |-> i, failed |-> prs[i].State = stateFailed]

\* a loop that leaves out the proxies in state failed
RECURSIVE FailoverLoopSkipFailed(_, _, _)
FailoverLoopSkipFailed(prs, i, log) ==
    IF i > Len(prs)
    THEN log
    ELSE FailoverLoopSkipFailed(prs, i + 1,
             IF prs[i].State = stateFailed THEN log
             ELSE Append(log, FailoverCall(prs, i)))

\* failoverProxies, lines 650-653: for _, pr := range cluster.Proxies
\* { pr.Failover() }, from position i on
RECURSIVE FailoverLoop(_, _, _)
FailoverLoop(prs, i, log) ==
    IF i > Len(prs)
    THEN log
    ELSE FailoverLoop(prs, i + 1, Append(log, FailoverCall(prs, i)))

\* failoverProxies, lines 649-655
failoverProxies ==
    /\ failoverCalls < MaxFailovers
    /\ failoverLog' = FailoverLoop(Proxies, 1, <<>>)
    /\ failoverCalls' = failoverCalls + 1
    /\ UNCHANGED <<Proxies, passes, lastErr, errRun>>

InitProxy ==
    /\ MaxFail \in 1..MaxMaxFail
    /\ \E n \in 1..MaxProxies :
         /\ Proxies \in [1..n -> {NewProxy(c) : c \in SUBSET Cookies}]
         /\ lastErr = [i \in 1..n |-> FALSE]
         /\ errRun = [i \in 1..n |-> 0]
    /\ passes = 0
    /\ failoverCalls = 0
    /\ failoverLog = <<>>

IdleProxy ==
    /\ Proxies = <<>>
    /\ lastErr = <<>>
    /\ errRun = <<>>
    /\ passes = 0
    /\ failoverCalls = 0
    /\ failoverLog = <<>>


(***************************************************************************)
(* Supervisor: StartCluster                                                *)
(***************************************************************************)
ClusterNames == {"c1", "c2"}
Servers == {"A", "B"}
NoMaster == "nil"

\* failover-mode values a configuration file can give
FailModes == {"manual", "automatic", "", "Manual", "MANUAL"}
BaseDirs == {"system", "/opt/repman"}
MonitorAddresses == {"localhost", "10.0.0.1"}
\* what resolveHostIp can return: the first non-loopback IPv4 address, or ""
HostIps == {"", "192.168.0.2"}

ConfigSet ==
    [FailMode : FailModes, Interactive : BOOLEAN, BaseDir : BaseDirs,
     ShareDir : {<<"system">>}, WorkingDir : {<<"system">>},
     MonitorAddress : MonitorAddresses]

ToLower(str) == IF str \in {"Manual", "MANUAL"} THEN "manual" ELSE str

\* StartClusterConf comparing the failover mode without regard to case
StartClusterConfAnyCase(conf, hostIp) ==
    LET c1 == IF conf.MonitorAddress = "localhost"
                THEN [conf EXCEPT !.MonitorAddress = hostIp] ELSE conf
        c2 == [c1 EXCEPT !.Interactive = (ToLower(c1.FailMode) = "manual")]
    IN  IF c2.BaseDir # "system"
          THEN [c2 EXCEPT !.ShareDir = <<c2.BaseDir, "/share">>,
                          !.WorkingDir = <<c2.BaseDir, "/data">>]
          ELSE c2

\* The configuration StartCluster hands to cluster.Init, from the entry of
\* repman.Confs; hostIp is the result of resolveHostIp().
StartClusterConf(conf, hostIp) ==
    LET c1 == IF conf.MonitorAddress = "localhost"
                THEN [conf EXCEPT !.MonitorAddress = hostIp] ELSE conf
        c2 == [c1 EXCEPT !.Interactive = (c1.FailMode = "manual")]
    IN  IF c2.BaseDir # "system"
          THEN [c2 EXCEPT !.ShareDir = <<c2.BaseDir, "/share">>,
                          !.WorkingDir = <<c2.BaseDir, "/data">>]
          ELSE c2

\* The cluster object StartCluster registers: a new(cluster.Cluster) that
\* Init has given its configuration; no master is discovered yet.
NewCluster(conf) ==
    [Conf |-> conf, IsSplitBrain |-> FALSE, master |-> NoMaster]

StartCluster(clusterName) ==
    \E hostIp \in HostIps :
        Clusters' = [n \in DOMAIN Clusters \cup {clusterName} |->
                        IF n = clusterName
                          THEN NewCluster(StartClusterConf(Confs[clusterName], hostIp))
                          ELSE Clusters[n]]

\* Run, lines 892-894: for _, gl := range repman.ClusterList { StartCluster(gl) }
RunStartLoop ==
    /\ startIdx <= Len(ClusterList)
    /\ StartCluster(ClusterList[startIdx])
    /\ startIdx' = startIdx + 1
    /\ UNCHANGED <<Confs, ClusterList>>

ClusterLists == {<<"c1">>, <<"c2">>, <<"c1", "c2">>, <<"c2", "c1">>}

InitStart ==
    /\ ClusterList \in ClusterLists
    /\ Confs \in [{ClusterList[i] : i \in 1..Len(ClusterList)} -> ConfigSet]
    /\ Clusters = <<>>
    /\ startIdx = 1

IdleStart ==
    /\ ClusterList = <<>>
    /\ Confs = <<>>
    /\ Clusters = <<>>
    /\ startIdx = 1

(***************************************************************************)
(* Supervisor: Heartbeat                                                   *)
(***************************************************************************)
MaxPeers == 2
Peers == {"p1", "p2"}
ConstMonitorActif == "A"
ConstMonitorStandby == "S"

\* What a request to a peer can produce.  kind "heartbeat" is a body that
\* json.Unmarshal decoded into a Heartbeat; the other kinds are the ways the
\* request can end before that (http.NewRequest, client.Do, ioutil.ReadAll,
\* json.Unmarshal failing).
ReplyErrors == {"reqerr", "unreachable", "readerr", "badjson"}
Replies ==
    [kind : {"heartbeat"}, Cluster : ClusterNames, Master : Servers,
     Hosts : {1}, Failed : {0, 1}]
    \cup [kind : ReplyErrors, Cluster : {""}, Master : {""}, Hosts : {0}, Failed : {0}]

\* HeartbeatPeerSplitBrain: TRUE on every error path, FALSE once the body
\* has been decoded.
HeartbeatPeerSplitBrain(reply, bck) ==
    IF reply.kind \in ReplyErrors THEN TRUE ELSE FALSE

\* Heartbeat, lines 1180-1183
HeartbeatArbitrator ==
    /\ hbpc \in {"idle", "ended"} /\ ~exit /\ Arbitration
    /\ cfgGroup = "arbitrator"
    /\ hbpc' = "idle"
    /\ hbLast' = "arbitrator"
    /\ UNCHANGED <<Arbitration, ArbitrationPeerHosts, cfgGroup, SplitBrain, Status,
                   exit, bcksplitbrain, peerIdx, hbReplies, Clusters>>

\* a Heartbeat that raises the flag when no peer is configured
HeartbeatNoPeerSplit ==
    /\ hbpc \in {"idle", "ended"} /\ ~exit /\ Arbitration
    /\ cfgGroup # "arbitrator"
    /\ ArbitrationPeerHosts = <<>>
    /\ Arbitration' = FALSE
    /\ SplitBrain' = TRUE
    /\ hbpc' = "idle"
    /\ hbLast' = "nopeer"
    /\ UNCHANGED <<ArbitrationPeerHosts, cfgGroup, Status,
                   exit, bcksplitbrain, peerIdx, hbReplies, Clusters>>

\* Heartbeat, lines 1187-1193: no peer configured
HeartbeatNoPeer ==
    /\ hbpc \in {"idle", "ended"} /\ ~exit /\ Arbitration
    /\ cfgGroup # "arbitrator"
    /\ ArbitrationPeerHosts = <<>>
    /\ Arbitration' = FALSE
    /\ hbpc' = "idle"
    /\ hbLast' = "nopeer"
    /\ UNCHANGED <<ArbitrationPeerHosts, cfgGroup, SplitBrain, Status,
                   exit, bcksplitbrain, peerIdx, hbReplies, Clusters>>

\* Heartbeat, lines 1187-1195: the peer list is built and SplitBrain saved
HeartbeatBegin ==
    /\ hbpc \in {"idle", "ended"} /\ ~exit /\ Arbitration
    /\ cfgGroup # "arbitrator"
    /\ ArbitrationPeerHosts # <<>>
    /\ bcksplitbrain' = SplitBrain
    /\ peerIdx' = 1
    /\ hbReplies' = <<>>
    /\ hbLast' = "round"
    /\ hbpc' = "peers"
    /\ UNCHANGED <<Arbitration, ArbitrationPeerHosts, cfgGroup, SplitBrain, Status,
                   exit, Clusters>>

\* Heartbeat, lines 1197-1204: one iteration of the loop over the peers
HeartbeatPeer ==
    /\ hbpc = "peers"
    /\ \E reply \in Replies :
         /\ SplitBrain' = HeartbeatPeerSplitBrain(reply, bcksplitbrain)
         /\ hbReplies' = Append(hbReplies, reply)
    /\ peerIdx' = peerIdx + 1
    /\ hbpc' = IF peerIdx = Len(ArbitrationPeerHosts) THEN "propagate" ELSE "peers"
    /\ UNCHANGED <<Arbitration, ArbitrationPeerHosts, cfgGroup, Status,
                   exit, bcksplitbrain, Clusters, hbLast>>

\* a propagation of the flag saved before the peers were asked
HeartbeatPropagateSaved ==
    /\ hbpc = "propagate"
    /\ Clusters' = [n \in DOMAIN Clusters |->
                       [Clusters[n] EXCEPT !.IsSplitBrain = bcksplitbrain]]
    /\ hbpc' = "ended"
    /\ UNCHANGED <<Arbitration, ArbitrationPeerHosts, cfgGroup, SplitBrain, Status,
                   exit, bcksplitbrain, peerIdx, hbReplies, hbLast>>

\* Heartbeat, lines 1206-1213: the flag is copied to every cluster
HeartbeatPropagate ==
    /\ hbpc = "propagate"
    /\ Clusters' = [n \in DOMAIN Clusters |->
                       [Clusters[n] EXCEPT !.IsSplitBrain = SplitBrain]]
    /\ hbpc' = "ended"
    /\ UNCHANGED <<Arbitration, ArbitrationPeerHosts, cfgGroup, SplitBrain, Status,
                   exit, bcksplitbrain, peerIdx, hbReplies, hbLast>>

PeerLists ==
    {<<>>} \cup {<<p>> : p \in Peers} \cup {<<p, q>> : p \in Peers, q \in Peers}

\* The supervisor when Run enters its main loop: Status and SplitBrain as Run
\* set them (lines 767-774), every cluster of the list started and its master
\* discovered by its monitor.
InitHb ==
    /\ Arbitration \in BOOLEAN
    /\ ArbitrationPeerHosts \in PeerLists
    /\ cfgGroup \in {"", "arbitrator"}
    /\ SplitBrain = FALSE
    /\ Status = IF Arbitration THEN ConstMonitorStandby ELSE ConstMonitorActif
    /\ exit = FALSE
    /\ hbpc = "idle"
    /\ bcksplitbrain = FALSE
    /\ peerIdx = 1
    /\ hbReplies = <<>>
    /\ hbLast = "none"
    /\ ClusterList \in ClusterLists
    /\ Confs = [n \in {ClusterList[i] : i \in 1..Len(ClusterList)} |->
                  [FailMode |-> "automatic", Interactive |-> FALSE, BaseDir |-> "system",
                   ShareDir |-> <<"system">>, WorkingDir |-> <<"system">>,
                   MonitorAddress |-> "10.0.0.1"]]
    /\ \E m \in [DOMAIN Confs -> Servers] :
         Clusters = [n \in DOMAIN Confs |->
                        [NewCluster(StartClusterConf(Confs[n], "")) EXCEPT !.master = m[n]]]
    /\ startIdx = Len(ClusterList) + 1

IdleHbVars ==
    /\ Arbitration = FALSE
    /\ ArbitrationPeerHosts = <<>>
    /\ cfgGroup = ""
    /\ SplitBrain = FALSE
    /\ Status = ConstMonitorActif
    /\ exit = FALSE
    /\ hbpc = "idle"
    /\ bcksplitbrain = FALSE
    /\ peerIdx = 1
    /\ hbReplies = <<>>
    /\ hbLast = "none"

IdleHb == IdleStart /\ IdleHbVars

(***************************************************************************)
(* One cluster: failure detection (checkfailed) and the failover /         *)
(* switchover executor.  The cluster package's monitor and executor are    *)
(* described by the design document, sections 4.1, 4.2, 4.3 and 4.4; the   *)
(* regression test testFailOverNoRplChecksNoSemiSync and the event codes   *)
(* are the repository's.                                                   *)
(***************************************************************************)
DbServers == {"db1", "db2", "db3"}
ServerId == [s \in DbServers |-> CASE s = "db1" -> 1 [] s = "db2" -> 2 [] OTHER -> 3]
stateMaster == "Master"
stateSlave == "Slave"

MaxFailTime == 3
MaxFailLimit == 2
\* cluster.conf.FailLimit as the regression test sets it
TestFailLimit == 5

\* Codes of clusterError the model emits
clusterError ==
    {"ERR00001", "ERR00023", "ERR00027", "ERR00028", "ERR00029", "ERR00032", "WARN0079"}

\* What one probe makes of a server (section 4.1, step 1): an errored probe
\* counts against the fail-count, max-fail of them in a row make the server
\* failed; a successful probe clears the count.
Probe(srv, s, reachable) ==
    IF reachable
      THEN [State |-> IF s = master THEN stateMaster ELSE stateSlave, FailCount |-> 0]
      ELSE LET fc == IF srv[s].FailCount < MaxFail THEN srv[s].FailCount + 1
                                                  ELSE srv[s].FailCount
           IN  [State |-> IF fc >= MaxFail THEN stateFailed ELSE stateSuspect,
                FailCount |-> fc]

\* The cluster state of section 4.2, read off the cluster's fields.
ClusterState(srv, m, rs) ==
    IF "failover" \in rs THEN "failing-over"
    ELSE IF "switchover" \in rs THEN "switching-over"
    ELSE IF m = NoMaster \/ srv[m].State = stateFailed THEN "down"
    ELSE IF IsSplitBrain THEN "split-brain"
    ELSE IF \E s \in DbServers \ {m} : srv[s].State # stateSlave THEN "degraded"
    ELSE "running-ok"

\* FailoverRefusals without the split-brain precondition
FailoverRefusalsNoSplitBrain(srv, since, hbIncreasing, conf) ==
    (IF conf.Interactive \/ srv[master].FailCount < MaxFail THEN {"ERR00023"} ELSE {})
    \cup (IF conf.failoverCtr >= conf.FailLimit THEN {"ERR00027"} ELSE {})
    \cup (IF since < conf.FailTime THEN {"ERR00029"} ELSE {})
    \cup (IF conf.RplChecks /\ hbIncreasing THEN {"ERR00028"} ELSE {})

\* FailoverRefusals without the time-between-failovers precondition
FailoverRefusalsNoFailTime(srv, since, hbIncreasing, conf) ==
    (IF conf.Interactive \/ srv[master].FailCount < MaxFail THEN {"ERR00023"} ELSE {})
    \cup (IF conf.failoverCtr >= conf.FailLimit THEN {"ERR00027"} ELSE {})
    \cup (IF IsSplitBrain THEN {"WARN0079"} ELSE {})
    \cup (IF conf.RplChecks /\ hbIncreasing THEN {"ERR00028"} ELSE {})

\* The preconditions of a failover that do not hold (section 4.4), each by
\* its code: ERR00023 automatic mode and master fail-count reached, ERR00027
\* failover counter below fail-limit, ERR00029 time between failovers,
\* WARN0079 no split brain, ERR00028 no slave still hears the master.
FailoverRefusals(srv, since, hbIncreasing, conf) ==
    (IF conf.Interactive \/ srv[master].FailCount < MaxFail THEN {"ERR00023"} ELSE {})
    \cup (IF conf.failoverCtr >= conf.FailLimit THEN {"ERR00027"} ELSE {})
    \cup (IF since < conf.FailTime THEN {"ERR00029"} ELSE {})
    \cup (IF IsSplitBrain THEN {"WARN0079"} ELSE {})
    \cup (IF conf.RplChecks /\ hbIncreasing THEN {"ERR00028"} ELSE {})

\* The policy and counter checkfailed reads
Policy ==
    [Interactive |-> Interactive, failoverCtr |-> failoverCtr, FailLimit |-> FailLimit,
     FailTime |-> FailTime, RplChecks |-> RplChecks]

\* checkfailed on the servers srv: a failover starts (the executor takes the
\* action lock) only when the master is failed and no precondition is unmet.
CheckFailedStarts(srv, refusals) ==
    /\ runs = {}
    /\ master # NoMaster
    /\ srv[master].State = stateFailed
    /\ refusals = {}

checkfailed(srv, refusals) ==
    IF runs # {}
      THEN events' = {"ERR00001"} /\ UNCHANGED varsExec
    ELSE IF master = NoMaster \/ srv[master].State # stateFailed
      THEN events' = {} /\ UNCHANGED varsExec
    ELSE IF CheckFailedStarts(srv, refusals)
      THEN /\ runs' = {"failover"}
           /\ execPc' = "elect"
           /\ events' = {}
           /\ UNCHANGED candidate
      ELSE events' = refusals /\ UNCHANGED varsExec

Saturate(t) == IF t < MaxFailTime THEN t + 1 ELSE t

\* A monitor tick that does not honour the action lock
MonitorTickNoFreeze ==
    /\ tickBit' = ~tickBit
    /\ sinceFailover' = Saturate(sinceFailover)
    /\ \E reach \in SUBSET DbServers :
         /\ servers' = [s \in DbServers |-> Probe(servers, s, s \in reach)]
         /\ events' = {}
         /\ UNCHANGED <<master, failoverCtr, Interactive, FailLimit, FailTime,
                        RplChecks, IgnoredHosts, IsSplitBrain, varsExec>>
    /\ UNCHANGED varsTest

\* One monitor tick (section 4.1).  While an executor run holds the action
\* lock the tick is frozen (ERR00001); otherwise it probes every server and
\* evaluates the failover trigger.
MonitorTick ==
    /\ tickBit' = ~tickBit
    /\ sinceFailover' = Saturate(sinceFailover)
    /\ IF runs # {}
         THEN /\ events' = {"ERR00001"}
              /\ UNCHANGED <<varsCluster, varsExec>>
         ELSE \E reach \in SUBSET DbServers, hbIncreasing \in BOOLEAN :
                LET srv == [s \in DbServers |-> Probe(servers, s, s \in reach)]
                IN  /\ servers' = srv
                    /\ checkfailed(srv, FailoverRefusals(srv, sinceFailover', hbIncreasing, Policy))
                    /\ UNCHANGED <<master, failoverCtr, Interactive, FailLimit, FailTime,
                                   RplChecks, IgnoredHosts, IsSplitBrain>>
    /\ UNCHANGED varsTest

\* An operator's switchover request: only from running-ok or degraded, and
\* refused while an executor run holds the action lock.
SwitchoverStarts ==
    /\ runs = {}
    /\ ClusterState(servers, master, runs) \in {"running-ok", "degraded"}

Switchover ==
    /\ tpc # "waiting"
    /\ IF SwitchoverStarts
         THEN /\ runs' = runs \cup {"switchover"}
              /\ execPc' = "elect"
              /\ events' = {}
         ELSE /\ events' = IF runs # {} THEN {"ERR00001"} ELSE {}
              /\ UNCHANGED <<runs, execPc>>
    /\ UNCHANGED <<varsCluster, candidate, sinceFailover, tickBit, varsTest>>

\* Heartbeat, line 1208: cl.IsSplitBrain = repman.SplitBrain
PropagateSplitBrain ==
    /\ \E b \in BOOLEAN : IsSplitBrain' = b
    /\ UNCHANGED <<servers, master, failoverCtr, Interactive, FailLimit, FailTime,
                   RplChecks, IgnoredHosts, varsExec, sinceFailover, events, tickBit,
                   varsTest>>

\* Election (section 4.3): the replicas that pass the filter, and the one
\* that ranks first (lowest server id).
Candidates == {s \in DbServers \ {master} :
                  servers[s].State = stateSlave /\ s \notin IgnoredHosts}
Elected == CHOOSE s \in Candidates : \A t \in Candidates : ServerId[s] <= ServerId[t]

\* Executor, step 2: no candidate aborts the run with ERR00032.
ExecElect ==
    /\ runs # {} /\ execPc = "elect"
    /\ IF Candidates = {}
         THEN /\ runs' = {}
              /\ execPc' = "idle"
              /\ events' = {"ERR00032"}
              /\ UNCHANGED candidate
         ELSE /\ candidate' = Elected
              /\ execPc' = "promote"
              /\ events' = {}
              /\ UNCHANGED runs
    /\ UNCHANGED <<varsCluster, sinceFailover, tickBit, varsTest>>

\* Executor, steps 3 to 5: the successor is promoted and the replicas are
\* repointed; a switchover leaves the old master a replica.
ExecPromote ==
    /\ runs # {} /\ execPc = "promote"
    /\ master' = candidate
    /\ servers' = [s \in DbServers |->
                      IF s = candidate THEN [State |-> stateMaster, FailCount |-> 0]
                      ELSE IF s = master /\ "switchover" \in runs
                        THEN [State |-> stateSlave, FailCount |-> 0]
                      ELSE servers[s]]
    /\ execPc' = "finish"
    /\ events' = {}
    /\ UNCHANGED <<failoverCtr, Interactive, FailLimit, FailTime, RplChecks, IgnoredHosts,
                   IsSplitBrain, runs, candidate, sinceFailover, tickBit, varsTest>>

\* An aborted run that still counts as a failover
ExecStepFailsCounted ==
    /\ runs # {} /\ execPc = "promote"
    /\ runs' = {}
    /\ execPc' = "idle"
    /\ events' = {"step-failed"}
    /\ failoverCtr' = failoverCtr + 1
    /\ UNCHANGED <<servers, master, Interactive, FailLimit, FailTime, RplChecks,
                   IgnoredHosts, IsSplitBrain, candidate, sinceFailover, tickBit, varsTest>>

\* Executor, failure handling: a step before the promotion fails, the run is
\* aborted and the old master kept.
ExecStepFails ==
    /\ runs # {} /\ execPc = "promote"
    /\ runs' = {}
    /\ execPc' = "idle"
    /\ events' = {"step-failed"}
    /\ UNCHANGED <<varsCluster, candidate, sinceFailover, tickBit, varsTest>>

\* Executor, steps 6 and 7: proxies reconfigured, counter incremented and
\* last-failover-time stamped (failover), action lock released.
ExecFinish ==
    /\ runs # {} /\ execPc = "finish"
    /\ failoverCtr' = IF "failover" \in runs THEN failoverCtr + 1 ELSE failoverCtr
    /\ sinceFailover' = IF "failover" \in runs THEN 0 ELSE sinceFailover
    /\ runs' = {}
    /\ execPc' = "idle"
    /\ events' = {}
    /\ UNCHANGED <<servers, master, Interactive, FailLimit, FailTime, RplChecks,
                   IgnoredHosts, IsSplitBrain, candidate, tickBit, varsTest>>

\* The test without line 25 (cluster.master.FailCount = cluster.conf.MaxFail)
testWithoutFailCount ==
    /\ tpc = "idle" /\ runs = {} /\ master # NoMaster
    /\ SaveMasterURL' = master
    /\ servers' = [servers EXCEPT ![master].State = stateFailed]
    /\ Interactive' = FALSE
    /\ FailLimit' = TestFailLimit
    /\ FailTime' = 0
    /\ failoverCtr' = 0
    /\ RplChecks' = FALSE
    /\ testStart' = [split |-> IsSplitBrain, cand |-> Candidates # {}]
    /\ checkfailed(servers', FailoverRefusals(servers', sinceFailover, FALSE, Policy'))
    /\ tpc' = "waiting"
    /\ UNCHANGED <<master, IgnoredHosts, IsSplitBrain, sinceFailover, tickBit, testResult>>

\* testFailOverNoRplChecksNoSemiSync, lines 20-31: the master is declared
\* failed, the policy set, and checkfailed called.
testFailOverNoRplChecksNoSemiSync ==
    /\ tpc = "idle" /\ runs = {} /\ master # NoMaster
    /\ SaveMasterURL' = master
    /\ servers' = [servers EXCEPT ![master] = [State |-> stateFailed, FailCount |-> MaxFail]]
    /\ Interactive' = FALSE
    /\ FailLimit' = TestFailLimit
    /\ FailTime' = 0
    /\ failoverCtr' = 0
    /\ RplChecks' = FALSE
    /\ testStart' = [split |-> IsSplitBrain, cand |-> Candidates # {}]
    /\ checkfailed(servers', FailoverRefusals(servers', sinceFailover, FALSE, Policy'))
    /\ tpc' = "waiting"
    /\ UNCHANGED <<master, IgnoredHosts, IsSplitBrain, sinceFailover, tickBit, testResult>>

\* testFailOverNoRplChecksNoSemiSync, lines 33-41: once no failover is in
\* progress the test passes iff the master changed.
waitFailoverEnd ==
    /\ tpc = "waiting" /\ runs = {}
    /\ testResult' = IF master = SaveMasterURL THEN "fail" ELSE "pass"
    /\ tpc' = "done"
    /\ UNCHANGED <<varsCluster, varsExec, sinceFailover, events, tickBit,
                   SaveMasterURL, testStart>>

IdleTest ==
    /\ tpc = "idle"
    /\ SaveMasterURL = NoMaster
    /\ testStart = [split |-> FALSE, cand |-> FALSE]
    /\ testResult = "none"

\* A cluster whose monitor found db1 master of two healthy replicas.
InitFailover ==
    /\ servers = [s \in DbServers |->
                     [State |-> IF s = "db1" THEN stateMaster ELSE stateSlave,
                      FailCount |-> 0]]
    /\ master = "db1"
    /\ failoverCtr = 0
    /\ sinceFailover = MaxFailTime
    /\ Interactive \in BOOLEAN
    /\ FailLimit \in 1..MaxFailLimit
    /\ FailTime \in {0, MaxFailTime}
    /\ RplChecks \in BOOLEAN
    /\ IgnoredHosts \in {{}, {"db3"}}
    /\ IsSplitBrain = FALSE
    /\ runs = {}
    /\ execPc = "idle"
    /\ candidate = NoMaster
    /\ events = {}
    /\ tickBit = FALSE
    /\ IdleTest

\* The states of the servers a monitor can have recorded.
ServerStates(isMaster) ==
    {[State |-> IF isMaster THEN stateMaster ELSE stateSlave, FailCount |-> 0]}
    \cup {[State |-> stateSuspect, FailCount |-> n] : n \in 1..(MaxFail - 1)}
    \cup {[State |-> stateFailed, FailCount |-> MaxFail]}

\* Any cluster the regression test can be started on.
InitFailoverTest ==
    /\ master \in DbServers
    /\ servers \in [DbServers -> ServerStates(TRUE) \cup ServerStates(FALSE)]
    /\ \A s \in DbServers : servers[s] \in ServerStates(s = master)
    /\ failoverCtr \in 0..MaxFailLimit
    /\ sinceFailover \in {0, MaxFailTime}
    /\ Interactive \in BOOLEAN
    /\ FailLimit = MaxFailLimit
    /\ FailTime \in {0, MaxFailTime}
    /\ RplChecks \in BOOLEAN
    /\ IgnoredHosts \in {{}, {"db3"}}
    /\ IsSplitBrain \in BOOLEAN
    /\ runs = {}
    /\ execPc = "idle"
    /\ candidate = NoMaster
    /\ events = {}
    /\ tickBit = FALSE
    /\ IdleTest

IdleFailover ==
    /\ servers = <<>>
    /\ master = NoMaster
    /\ failoverCtr = 0
    /\ sinceFailover = 0
    /\ Interactive = FALSE
    /\ FailLimit = 0
    /\ FailTime = 0
    /\ RplChecks = FALSE
    /\ IgnoredHosts = {}
    /\ IsSplitBrain = FALSE
    /\ runs = {}
    /\ execPc = "idle"
    /\ candidate = NoMaster
    /\ events = {}
    /\ tickBit = FALSE
    /\ IdleTest

(***************************************************************************)
(* Configuration loading: InitConfig and GetClusterConfig (part_000), over *)
(* the part of a viper the two functions use                               *)
(***************************************************************************)
MaxValue == 2
MaxNow == 3
MaxLogins == 4
Values == 1..MaxValue

\* the keys a section can give: a parameter and its alias (initAlias)
RealKeys == {"failover-max-slave-delay"}
KeyNames == RealKeys \cup {"maxdelay"}
Sections == UNION {[D -> Values] : D \in SUBSET KeyNames}
NoKeys == [k \in {} |-> 1]

Put(m, k, v) == [x \in DOMAIN m \cup {k} |-> IF x = k THEN v ELSE m[x]]
Move(m, a, k) ==
    IF a \in DOMAIN m
      THEN [x \in (DOMAIN m \ {a}) \cup {k} |-> IF x = k THEN m[a] ELSE m[x]]
      ELSE m

\* viper.Sub: a new viper whose configuration is the section, with no alias
Sub(section) == [config |-> section, override |-> NoKeys, aliases |-> {}]

RealKey(v, k) == IF k \in v.aliases THEN "failover-max-slave-delay" ELSE k

\* viper.RegisterAlias: a value set under the alias moves to the key
RegisterAlias(v, alias, key) ==
    IF alias = key \/ alias \in v.aliases
      THEN v
      ELSE [config |-> Move(v.config, alias, key),
            override |-> Move(v.override, alias, key),
            aliases |-> v.aliases \cup {alias}]

\* initAlias, for the alias of the parameter modelled
initAlias(v) == RegisterAlias(v, "maxdelay", "failover-max-slave-delay")

IsSet(v, k) == RealKey(v, k) \in DOMAIN v.override \cup DOMAIN v.config
Get(v, k) ==
    IF RealKey(v, k) \in DOMAIN v.override
      THEN v.override[RealKey(v, k)]
      ELSE v.config[RealKey(v, k)]
Set(v, k, val) == [v EXCEPT !.override = Put(@, RealKey(v, k), val)]
AllKeys(v) == v.aliases \cup DOMAIN v.override \cup DOMAIN v.config

\* viper.Unmarshal into a config.Config: the fields whose key is set are
\* overwritten, the others keep their value
Unmarshal(v, conf) ==
    [k \in DOMAIN conf |-> IF IsSet(v, k) THEN Get(v, k) ELSE conf[k]]

\* a map in which the entries of m win over the set keys of v
AddUnsetKeys(m, v) ==
    [k \in DOMAIN m \cup {f \in AllKeys(v) : IsSet(v, f)} |->
        IF k \in DOMAIN m THEN m[k] ELSE Get(v, k)]

\* the map that gets m's entries and then, over them, the set keys of v
AddSetKeys(m, v) ==
    [k \in DOMAIN m \cup {f \in AllKeys(v) : IsSet(v, f)} |->
        IF k \in AllKeys(v) /\ IsSet(v, k) THEN Get(v, k) ELSE m[k]]

\* InitConfig, lines 337-350 and 474-485: the keys of the default section
\* become immutable, and the section is decoded over the flags
InitConfig ==
    /\ cpc = "start"
    /\ ImmuableMap' = AddSetKeys(NoKeys, Sub(fistRead.default))
    /\ Conf' = Unmarshal(initAlias(Sub(fistRead.default)), fistRead.flags)
    /\ cpc' = "clusters"
    /\ UNCHANGED <<fistRead, CommandLineFlag, ConfRewrite, ImmuableFlagMaps,
                   DynamicFlagMaps, VersionConfs>>

\* GetClusterConfig, lines 650-655: the saved keys the immutable map holds
\* are set to their immutable value
PinImmuable(cf3, clustImmuableMap) ==
    [cf3 EXCEPT !.override =
        [f \in AllKeys(cf3) \cap DOMAIN clustImmuableMap |-> clustImmuableMap[f]]]

\* GetClusterConfig without the loop of lines 650-655
PinNothing(cf3, clustImmuableMap) == cf3

\* GetClusterConfig, lines 659-672: the saved keys that are not immutable,
\* or whose value read differs from the immutable one, become dynamic
DynamicKeys(cf3, clustImmuableMap, clustDynamicMap) ==
    LET dyn == {f \in AllKeys(cf3) :
                   /\ IsSet(cf3, f)
                   /\ \/ f \notin DOMAIN clustImmuableMap
                      \/ clustImmuableMap[f] # Get(cf3, f)}
    IN  [f \in DOMAIN clustDynamicMap \cup dyn |->
            IF f \in dyn THEN Get(cf3, f) ELSE clustDynamicMap[f]]

\* GetClusterConfig(fistRead, ImmuableMap, DynamicMap, cluster, conf) for a
\* named cluster, called by InitConfig (line 552) with an empty DynamicMap
GetClusterConfig ==
    /\ cpc = "clusters"
    /\ LET cmdMap == [f \in DOMAIN ImmuableMap \cup CommandLineFlag |->
                        IF f \in CommandLineFlag THEN fistRead.flags[f]
                                                 ELSE ImmuableMap[f]]
           cf2 == initAlias(Sub(fistRead.cluster))
           conf2 == Unmarshal(cf2, Conf)
           clustImmuableMap == AddSetKeys(cmdMap, cf2)
           cf3 == initAlias(PinImmuable(Sub(fistRead.saved), clustImmuableMap))
           clusterconf == IF ConfRewrite THEN Unmarshal(cf3, conf2) ELSE conf2
       IN  /\ ImmuableFlagMaps' = clustImmuableMap
           /\ DynamicFlagMaps' =
                 IF ConfRewrite THEN DynamicKeys(cf3, clustImmuableMap, NoKeys)
                                ELSE NoKeys
           /\ VersionConfs' = [ConfImmuable |-> conf2, ConfInit |-> clusterconf]
    /\ cpc' = "done"
    /\ UNCHANGED <<fistRead, CommandLineFlag, ConfRewrite, ImmuableMap, Conf>>

InitConfigVars ==
    /\ fistRead \in [flags : [RealKeys -> Values], default : Sections,
                     cluster : Sections, saved : Sections]
    /\ CommandLineFlag \in SUBSET RealKeys
    /\ ConfRewrite \in BOOLEAN
    /\ cpc = "start"
    /\ ImmuableMap = NoKeys
    /\ Conf = fistRead.flags
    /\ ImmuableFlagMaps = NoKeys
    /\ DynamicFlagMaps = NoKeys
    /\ VersionConfs = [ConfImmuable |-> Conf, ConfInit |-> Conf]

IdleConfig ==
    /\ fistRead = [flags |-> NoKeys, default |-> NoKeys, cluster |-> NoKeys,
                   saved |-> NoKeys]
    /\ CommandLineFlag = {}
    /\ ConfRewrite = FALSE
    /\ cpc = "done"
    /\ ImmuableMap = NoKeys
    /\ Conf = NoKeys
    /\ ImmuableFlagMaps = NoKeys
    /\ DynamicFlagMaps = NoKeys
    /\ VersionConfs = [ConfImmuable |-> NoKeys, ConfInit |-> NoKeys]

(***************************************************************************)
(* Supervisor: the tasks of Run (part_000) and the API handlers that read  *)
(* what Run writes (api.go).  Each access to repman.Clusters and to        *)
(* repman.SplitBrain is recorded with whether it lies between              *)
(* repman.Lock() and repman.Unlock().                                      *)
(***************************************************************************)
Access(task, var, kind, locked) ==
    [task |-> task, var |-> var, kind |-> kind, locked |-> locked]

\* a configuration GetClusterConfig returns, with nothing StartCluster rewrites
PlainConf ==
    [FailMode |-> "automatic", Interactive |-> FALSE, BaseDir |-> "system",
     ShareDir |-> <<"system">>, WorkingDir |-> <<"system">>,
     MonitorAddress |-> "10.0.0.1"]

\* the cluster lists InitConfig can leave: the names discovered, or the names
\* of the config group flag split on ",", which may repeat a name
RunClusterLists == {<<"c1">>, <<"c1", "c2">>, <<"c1", "c1">>}

\* Run that starts from line 775, leaving Status as the zero value
RunSkipStatus ==
    /\ rpc = "init"
    /\ Clusters' = <<>>
    /\ accesses' = accesses \cup {Access("init", "Clusters", "write", FALSE)}
    /\ rpc' = "api"
    /\ UNCHANGED <<apiserver, isStarted, Cloud18, rangeList, initialList, gpc, spc, monitorTasks, stopped,
                   served, varsStart, varsHb>>

\* Run, lines 767-774
RunSetStatus ==
    /\ rpc = "init"
    /\ Clusters' = <<>>
    /\ Status' = IF Arbitration THEN ConstMonitorStandby ELSE ConstMonitorActif
    /\ SplitBrain' = FALSE
    /\ accesses' = accesses \cup {Access("init", "Clusters", "write", FALSE),
                                  Access("init", "SplitBrain", "write", FALSE)}
    /\ rpc' = "api"
    /\ UNCHANGED <<apiserver, isStarted, Cloud18, rangeList, initialList, gpc, spc, monitorTasks, stopped,
                   served, varsStart, Arbitration, ArbitrationPeerHosts,
                   cfgGroup, exit, hbpc, bcksplitbrain, peerIdx, hbReplies, hbLast>>

\* Run, line 843: go repman.apiserver()
RunApiServer ==
    /\ rpc = "api"
    /\ apiserver' = TRUE
    /\ rpc' = "range"
    /\ UNCHANGED <<isStarted, Cloud18, rangeList, initialList, gpc, spc, monitorTasks, stopped, accesses,
                   served, varsStart, Clusters, varsHb>>

\* Run, line 892: the range expression repman.ClusterList is evaluated once,
\* when the start loop is entered
RunRangeClusterList ==
    /\ rpc = "range"
    /\ rangeList' = ClusterList
    /\ rpc' = "startloop"
    /\ UNCHANGED <<apiserver, isStarted, Cloud18, initialList, gpc, spc,
                   monitorTasks, stopped, accesses, served, varsStart,
                   Clusters, varsHb>>

\* Run, lines 892-894, one iteration; StartCluster writes the registry
\* (line 1108) and starts the monitor task (line 1110)
RunStartCluster ==
    /\ rpc = "startloop"
    /\ startIdx <= Len(rangeList)
    /\ StartCluster(rangeList[startIdx])
    /\ startIdx' = startIdx + 1
    /\ monitorTasks' = Append(monitorTasks, rangeList[startIdx])
    /\ accesses' = accesses \cup {Access("main", "Clusters", "write", FALSE)}
    /\ UNCHANGED <<rpc, apiserver, isStarted, Cloud18, rangeList, initialList, gpc,
                   spc, stopped, served, Confs, ClusterList, varsHb>>

\* Run, lines 895-913: SetClusterList on every cluster, the git-pull task
RunGitPullTask ==
    /\ rpc = "startloop"
    /\ startIdx > Len(rangeList)
    /\ gpc' = "idle"
    /\ accesses' = accesses \cup {Access("main", "Clusters", "read", FALSE)}
    /\ rpc' = "tasks"
    /\ UNCHANGED <<apiserver, isStarted, Cloud18, rangeList, initialList, spc, monitorTasks, stopped, served, varsStart, Clusters, varsHb>>

\* Run, lines 1043-1059: isStarted, and the task that waits for the signal
RunIsStarted ==
    /\ rpc = "tasks"
    /\ isStarted' = TRUE
    /\ spc' = "waiting"
    /\ rpc' = "loop"
    /\ UNCHANGED <<apiserver, Cloud18, rangeList, initialList, gpc, monitorTasks, stopped, accesses,
                   served, varsStart, Clusters, varsHb>>

\* Run, lines 1061-1069: the main loop calls Heartbeat
RunHeartbeatArbitrator ==
    /\ rpc = "loop"
    /\ HeartbeatArbitrator
    /\ UNCHANGED <<varsRun, varsStart>>

RunHeartbeatNoPeer ==
    /\ rpc = "loop"
    /\ HeartbeatNoPeer
    /\ UNCHANGED <<varsRun, varsStart>>

\* Heartbeat, line 1195: SplitBrain is read before the mutex is taken
RunHeartbeatBegin ==
    /\ rpc = "loop"
    /\ HeartbeatBegin
    /\ accesses' = accesses \cup {Access("main", "SplitBrain", "read", FALSE)}
    /\ UNCHANGED <<rpc, apiserver, isStarted, Cloud18, rangeList, initialList, gpc, spc, monitorTasks,
                   stopped, served, varsStart>>

\* Heartbeat, lines 1198-1200: SplitBrain is written between Lock and Unlock
RunHeartbeatPeer ==
    /\ rpc = "loop"
    /\ HeartbeatPeer
    /\ accesses' = accesses \cup {Access("main", "SplitBrain", "write", TRUE)}
    /\ UNCHANGED <<rpc, apiserver, isStarted, Cloud18, rangeList, initialList, gpc, spc, monitorTasks,
                   stopped, served, varsStart>>

\* Heartbeat, lines 1206-1213: the registry and SplitBrain are read after Unlock
RunHeartbeatPropagate ==
    /\ rpc = "loop"
    /\ HeartbeatPropagate
    /\ accesses' = accesses \cup {Access("main", "Clusters", "read", FALSE),
                                  Access("main", "SplitBrain", "read", FALSE)}
    /\ UNCHANGED <<rpc, apiserver, isStarted, Cloud18, rangeList, initialList, gpc, spc, monitorTasks,
                   stopped, served, varsStart>>

\* Run, lines 1061 and 1070-1078: the loop sees exit and the process ends
RunLeave ==
    /\ rpc = "loop"
    /\ hbpc \in {"idle", "ended"}
    /\ exit
    /\ rpc' = "exited"
    /\ UNCHANGED <<apiserver, isStarted, Cloud18, rangeList, initialList, gpc, spc, monitorTasks, stopped,
                   accesses, served, varsStart, Clusters, varsHb>>

\* Run, lines 963-1003: a tick of the git-pull task finds the directory of a
\* cluster that is not in the registry, with its configuration file
GitPullDiscover ==
    /\ gpc = "idle" /\ Cloud18 /\ rpc # "exited"
    /\ \E f \in ClusterNames \ DOMAIN Clusters :
         /\ Confs' = [n \in DOMAIN Confs \cup {f} |->
                         IF n = f THEN PlainConf ELSE Confs[n]]
         /\ \E hostIp \in HostIps :
              Clusters' = [n \in DOMAIN Clusters \cup {f} |->
                              IF n = f THEN NewCluster(StartClusterConf(PlainConf, hostIp))
                                       ELSE Clusters[n]]
         /\ monitorTasks' = Append(monitorTasks, f)
         /\ ClusterList' = Append(ClusterList, f)
    /\ accesses' = accesses \cup {Access("gitpull", "Clusters", "read", FALSE),
                                  Access("gitpull", "Clusters", "write", FALSE)}
    /\ UNCHANGED <<rpc, apiserver, isStarted, Cloud18, rangeList, initialList, gpc, spc, stopped, served, startIdx, varsHb>>

\* Run, lines 1050-1055: the signal arrives, Stop is called on the clusters
\* the registry holds
SignalStop ==
    /\ spc = "waiting" /\ rpc # "exited"
    /\ stopped' = DOMAIN Clusters
    /\ accesses' = accesses \cup {Access("signal", "Clusters", "read", FALSE)}
    /\ spc' = "stopping"
    /\ UNCHANGED <<rpc, apiserver, isStarted, Cloud18, rangeList, initialList, gpc, monitorTasks, served, varsStart, Clusters, varsHb>>

\* Run, line 1057
SignalExit ==
    /\ spc = "stopping" /\ rpc # "exited"
    /\ exit' = TRUE
    /\ spc' = "done"
    /\ UNCHANGED <<rpc, apiserver, isStarted, Cloud18, rangeList, initialList, gpc, monitorTasks, stopped,
                   accesses, served, varsStart, Clusters, Arbitration,
                   ArbitrationPeerHosts, cfgGroup, SplitBrain, Status, hbpc,
                   bcksplitbrain, peerIdx, hbReplies, hbLast>>

(***************************************************************************)
(* The API server (api.go).  gorilla/mux serves a request with the first   *)
(* route, in registration order, that matches it.                          *)
(***************************************************************************)
Route(path, protected, handler) ==
    [path |-> path, protected |-> protected, handler |-> handler]

\* apiserver, lines 152-181 and 243-245: the routes in registration order
Routes ==
    << Route("/api/login", FALSE, "loginHandler"),
       Route("/api/prometheus", FALSE, "handlerMuxPrometheus"),
       Route("/api/status", FALSE, "handlerMuxStatus"),
       Route("/api/monitor", FALSE, "handlerMuxReplicationManager"),
       Route("/api/monitor", TRUE, "handlerMuxReplicationManager"),
       Route("/api/heartbeat", FALSE, "handlerMuxMonitorHeartbeat") >>

\* mux.Router.Match: the first registered route whose path is the request's
Match(path) ==
    LET hits == {i \in 1..Len(Routes) : Routes[i].path = path}
    IN  CHOOSE i \in hits : \A j \in hits : i <= j

\* the Authorization header of a request: absent, a token whose signature or
\* expiry does not verify, a token signed by loginHandler
Tokens == {"none", "invalid", "valid"}

Reply(path, token, code, handler, body) ==
    [path |-> path, token |-> token, code |-> code, handler |-> handler,
     body |-> body]

NoReply == Reply("", "none", 0, "none", "")

\* request.ParseFromRequest, lines 566-570: the error and the token's Valid
\* field for a header of Tokens
ParseFromRequest(token) ==
    IF token = "valid" THEN [err |-> FALSE, Valid |-> TRUE]
                       ELSE [err |-> TRUE, Valid |-> FALSE]

\* a middleware that calls next for every token that parses
MiddlewareTrustsParse(parsed) == ~parsed.err

\* validateTokenMiddleware, lines 572-574: next is called when err == nil and
\* token.Valid
MiddlewareCallsNext(parsed) == ~parsed.err /\ parsed.Valid

\* validateTokenMiddleware, lines 563-583: next is called iff the token parses
\* and is valid
validateTokenMiddleware(token) == MiddlewareCallsNext(ParseFromRequest(token))

\* handlerMuxStatus, lines 681-690
handlerMuxStatus(token) ==
    /\ served' = Reply("/api/status", token, 200, "handlerMuxStatus",
                       IF isStarted THEN "running" ELSE "starting")
    /\ UNCHANGED <<ClusterList, accesses>>

\* handlerMuxMonitorHeartbeat, lines 710-720: send.Status = repman.Status
handlerMuxMonitorHeartbeat(token) ==
    /\ served' = Reply("/api/heartbeat", token, 200,
                       "handlerMuxMonitorHeartbeat", Status)
    /\ UNCHANGED <<ClusterList, accesses>>

\* handlerMuxPrometheus, lines 631-640: ranges over the registry
handlerMuxPrometheus(token) ==
    /\ served' = Reply("/api/prometheus", token, 200, "handlerMuxPrometheus", "")
    /\ accesses' = accesses \cup {Access("api", "Clusters", "read", FALSE)}
    /\ UNCHANGED ClusterList

\* the orders a range over the map repman.Clusters can visit the names S in
Orders(S) ==
    {q \in UNION {[1..n -> S] : n \in 0..Cardinality(S)} :
        /\ Len(q) = Cardinality(S)
        /\ \A i, j \in 1..Len(q) : q[i] = q[j] => i = j}

\* handlerMuxReplicationManager, lines 494-517: mycopy is the pointer repman,
\* so line 506 assigns repman.ClusterList the names of the clusters
\* IsValidClusterACL (lines 268-291) accepts: none without a parsable token
handlerMuxReplicationManager(token) ==
    /\ \E S \in SUBSET (DOMAIN Clusters) :
          /\ token # "valid" => S = {}
          /\ \E cl \in Orders(S) : ClusterList' = cl
    /\ accesses' = accesses \cup {Access("api", "Clusters", "read", FALSE)}
    /\ served' = Reply("/api/monitor", token, 200,
                       "handlerMuxReplicationManager", "")

\* the router: the middleware of the matching route, then its handler
ServeHTTP(path, token) ==
    /\ apiserver /\ rpc # "exited"
    /\ LET r == Routes[Match(path)]
       IN  IF r.protected /\ ~validateTokenMiddleware(token)
           THEN /\ served' = Reply(path, token, 401, "none", "")
                /\ UNCHANGED <<ClusterList, accesses>>
           ELSE CASE r.handler = "handlerMuxStatus" -> handlerMuxStatus(token)
                  [] r.handler = "handlerMuxMonitorHeartbeat" ->
                         handlerMuxMonitorHeartbeat(token)
                  [] r.handler = "handlerMuxPrometheus" -> handlerMuxPrometheus(token)
                  [] r.handler = "handlerMuxReplicationManager" ->
                         handlerMuxReplicationManager(token)
    /\ UNCHANGED <<rpc, apiserver, isStarted, Cloud18, rangeList, initialList, gpc,
                   spc, monitorTasks, stopped, Confs, startIdx, Clusters, varsHb>>

ServeStatus == ServeHTTP("/api/status", "none")

ServeHeartbeat == ServeHTTP("/api/heartbeat", "none")

ServePrometheus == ServeHTTP("/api/prometheus", "none")

ServeMonitor == \E token \in Tokens : ServeHTTP("/api/monitor", token)

\* The supervisor when Run is entered
InitRun ==
    /\ rpc = "init"
    /\ apiserver = FALSE
    /\ isStarted = FALSE
    /\ Cloud18 \in BOOLEAN
    /\ rangeList = <<>>
    /\ gpc = "none"
    /\ spc = "none"
    /\ monitorTasks = <<>>
    /\ stopped = {}
    /\ accesses = {}
    /\ served = NoReply
    /\ ClusterList \in RunClusterLists
    /\ initialList = ClusterList
    /\ Confs = [n \in {ClusterList[i] : i \in 1..Len(ClusterList)} |-> PlainConf]
    /\ Clusters = <<>>
    /\ startIdx = 1
    /\ Arbitration \in BOOLEAN
    /\ ArbitrationPeerHosts \in {<<>>, <<"p1">>}
    /\ cfgGroup \in {"", "arbitrator"}
    /\ SplitBrain = FALSE
    /\ Status = ""
    /\ exit = FALSE
    /\ hbpc = "idle"
    /\ bcksplitbrain = FALSE
    /\ peerIdx = 1
    /\ hbReplies = <<>>
    /\ hbLast = "none"

IdleRun ==
    /\ rpc = "exited"
    /\ apiserver = FALSE
    /\ isStarted = FALSE
    /\ Cloud18 = FALSE
    /\ rangeList = <<>>
    /\ initialList = <<>>
    /\ gpc = "none"
    /\ spc = "none"
    /\ monitorTasks = <<>>
    /\ stopped = {}
    /\ accesses = {}
    /\ served = NoReply

(***************************************************************************)
(* loginHandler (api.go:293-382) and the attempts it counts in             *)
(* repman.UserAuthTry (part_000:91, 116-120)                               *)
(***************************************************************************)
Users == {"admin", "dba"}

\* api.go:305, the count at which a user is locked out
MaxTry == 3

\* api.go:306, the minutes a lockout lasts
LockMinutes == 3

authTry(try, time) == [Try |-> try, Time |-> time]

\* a lockout test without the time limit
LockedForever(auth_try, t) == auth_try.Try = MaxTry

\* loginHandler, lines 305-306:
\* auth_try.Try == 3 && time.Now().Before(auth_try.Time.Add(3 * time.Minute))
Locked(auth_try, t) ==
    /\ auth_try.Try = MaxTry
    /\ t < auth_try.Time + LockMinutes

\* loginHandler, lines 304-327: the entry written before the credentials are
\* looked at
CountTry(tries, user, t) ==
    IF user \in DOMAIN tries
    THEN IF tries[user].Try = MaxTry
         THEN authTry(1, t)
         ELSE authTry(tries[user].Try + 1, tries[user].Time)
    ELSE authTry(1, t)

\* repman.UserAuthTry[user] = auth_try
PutTry(tries, user, auth_try) ==
    [u \in DOMAIN tries \cup {user} |-> IF u = user THEN auth_try ELSE tries[u]]

LoginEntry(user, t, valid, code) ==
    [user |-> user, t |-> t, valid |-> valid, code |-> code]

\* loginHandler, lines 304-382, for a request that decodes, handled at time t;
\* valid: some cluster of the registry accepts the credentials (line 331)
loginHandler(user, valid, t) ==
    /\ Len(loginLog) < MaxLogins
    /\ now' = t
    /\ IF user \in DOMAIN UserAuthTry /\ Locked(UserAuthTry[user], t)
       THEN /\ UserAuthTry' = UserAuthTry
            /\ loginLog' = Append(loginLog, LoginEntry(user, t, valid, 429))
       ELSE IF valid
            THEN /\ UserAuthTry' = PutTry(UserAuthTry, user, authTry(1, t))
                 /\ loginLog' = Append(loginLog, LoginEntry(user, t, valid, 200))
            ELSE /\ UserAuthTry' =
                       PutTry(UserAuthTry, user, CountTry(UserAuthTry, user, t))
                 /\ loginLog' = Append(loginLog, LoginEntry(user, t, valid, 403))

\* a login request, at the current time or later
ServeLogin ==
    \E user \in Users, valid \in BOOLEAN, t \in now..MaxNow :
        loginHandler(user, valid, t)

\* loginHandler, lines 298-303: a body that does not decode is answered 403
\* and nothing is counted
ServeLoginBadRequest ==
    UNCHANGED <<UserAuthTry, now, loginLog>>

IdleApi ==
    /\ UserAuthTry = <<>>
    /\ now = 0
    /\ loginLog = <<>>

(***************************************************************************)
(* The requests of one heartbeat round (part_000, lines 1114-1146 and      *)
(* 1196-1204).  Time is counted in seconds.                                *)
(***************************************************************************)
MaxTicker == 2
MaxReqPeers == 2

\* the longest wait the model follows: one second more than any timeout
MaxWait == 4 * MaxTicker + 1

PeerBehaviours == {"answer", "refuse", "silent"}

\* line 1115: timeout := MonitoringTicker * time.Second * 4
Timeout(ticker) == ticker * 4

\* http.Client.Timeout: "A Timeout of zero means no timeout"; the client
\* sets a deadline only when Timeout > 0
HasDeadline(timeout) == timeout > 0

\* line 1140: client.Do is called and blocks until the peer or the deadline
PeerRequestSend ==
    /\ reqpc = "idle"
    /\ reqIdx <= Len(peerBehaviour)
    /\ reqpc' = "pending"
    /\ waited' = 0
    /\ UNCHANGED <<MonitoringTicker, peerBehaviour, reqIdx, reqResults>>

\* a second passes while the request is pending; the deadline, when there is
\* one, lets no more than Timeout seconds pass
SecondPasses ==
    /\ reqpc = "pending"
    /\ waited < MaxWait
    /\ HasDeadline(Timeout(MonitoringTicker)) => waited < Timeout(MonitoringTicker)
    /\ waited' = waited + 1
    /\ UNCHANGED <<MonitoringTicker, peerBehaviour, reqIdx, reqpc, reqResults>>

\* lines 1140-1176: the peer answers and the body is read; the body decodes
\* or not
PeerAnswers ==
    /\ reqpc = "pending"
    /\ peerBehaviour[reqIdx] = "answer"
    /\ \E kind \in {"heartbeat", "badjson"} :
          reqResults' = Append(reqResults,
              HeartbeatPeerSplitBrain([kind |-> kind], FALSE))
    /\ reqpc' = "idle"
    /\ reqIdx' = reqIdx + 1
    /\ UNCHANGED <<MonitoringTicker, peerBehaviour, waited>>

\* lines 1140-1146: the connection is refused, client.Do returns an error
PeerRefuses ==
    /\ reqpc = "pending"
    /\ peerBehaviour[reqIdx] = "refuse"
    /\ reqResults' = Append(reqResults,
          HeartbeatPeerSplitBrain([kind |-> "unreachable"], FALSE))
    /\ reqpc' = "idle"
    /\ reqIdx' = reqIdx + 1
    /\ UNCHANGED <<MonitoringTicker, peerBehaviour, waited>>

\* lines 1140-1146: the deadline of the client passes, client.Do returns an
\* error
ClientTimeout ==
    /\ reqpc = "pending"
    /\ HasDeadline(Timeout(MonitoringTicker))
    /\ waited >= Timeout(MonitoringTicker)
    /\ reqResults' = Append(reqResults,
          HeartbeatPeerSplitBrain([kind |-> "unreachable"], FALSE))
    /\ reqpc' = "idle"
    /\ reqIdx' = reqIdx + 1
    /\ UNCHANGED <<MonitoringTicker, peerBehaviour, waited>>

\* lines 1196-1204: the loop over the peers is over
RoundEnds ==
    /\ reqpc = "idle"
    /\ reqIdx > Len(peerBehaviour)
    /\ reqpc' = "done"
    /\ UNCHANGED <<MonitoringTicker, peerBehaviour, reqIdx, waited, reqResults>>

InitPeerRequest ==
    /\ MonitoringTicker \in 0..MaxTicker
    /\ peerBehaviour \in UNION {[1..n -> PeerBehaviours] : n \in 1..MaxReqPeers}
    /\ reqIdx = 1
    /\ reqpc = "idle"
    /\ waited = 0
    /\ reqResults = <<>>

IdlePeerRequest ==
    /\ MonitoringTicker = 1
    /\ peerBehaviour = <<>>
    /\ reqIdx = 1
    /\ reqpc = "idle"
    /\ waited = 0
    /\ reqResults = <<>>

(***************************************************************************)
(* DiscoverClusters (part_000, lines 189-216).  A string is a sequence of  *)
(* characters.                                                             *)
(***************************************************************************)
MaxKeys == 3

Str_default == <<"d", "e", "f", "a", "u", "l", "t">>
Str_Default == <<"D", "e", "f", "a", "u", "l", "t">>
Str_saved == <<"s", "a", "v", "e", "d", "-">>
Str_c1 == <<"c", "1">>
Str_c2 == <<"c", "2">>

\* the section names a configuration file may hold
SectionNames ==
    {Str_default, Str_Default, Str_saved \o Str_default,
     Str_c1, Str_saved \o Str_c1, Str_c2}

\* the keys a configuration may hold: a key of a section, a second key of
\* section c1, and a key outside every section
ConfigKeys ==
    {section \o <<".", "k">> : section \in SectionNames}
        \cup {Str_c1 \o <<".", "h">>, <<"k">>}

\* strings.ToLower, on the letters in use
ToLowerChar(c) == IF c = "D" THEN "d" ELSE c
ToLowerChars(str) == [i \in 1..Len(str) |-> ToLowerChar(str[i])]

\* viper.AllKeys on the configuration read: the flattened keys in lower
\* case, in no particular order
AllKeysLower(v) == {ToLowerChars(k) : k \in v}

\* strings.Contains(k, ".")
Contains(str, c) == \E i \in 1..Len(str) : str[i] = c

\* strings.Split(k, ".")[0]: what comes before the first separator
RECURSIVE SplitFirst(_, _)
SplitFirst(str, c) ==
    IF str = <<>> \/ Head(str) = c THEN <<>>
    ELSE <<Head(str)>> \o SplitFirst(Tail(str), c)

\* strings.HasPrefix
HasPrefix(str, prefix) ==
    /\ Len(str) >= Len(prefix)
    /\ SubSeq(str, 1, Len(prefix)) = prefix

\* strings.TrimPrefix
TrimPrefix(str, prefix) ==
    IF HasPrefix(str, prefix) THEN SubSeq(str, Len(prefix) + 1, Len(str)) ELSE str

\* strings.Join(list, ",")
RECURSIVE Join(_, _)
Join(list, sep) ==
    IF list = <<>> THEN <<>>
    ELSE IF Len(list) = 1 THEN list[1]
    ELSE list[1] \o <<sep>> \o Join(Tail(list), sep)

\* lines 201-203: the cluster name of a section
DiscoverName(mycluster) ==
    IF HasPrefix(mycluster, Str_saved) THEN TrimPrefix(mycluster, Str_saved)
    ELSE mycluster

\* a loop that appends the name of every key, seen before or not
RECURSIVE DiscoverLoopNoMap(_, _, _)
DiscoverLoopNoMap(m, i, found) ==
    IF i > Len(m) THEN found
    ELSE LET k == m[i]
             mycluster == SplitFirst(k, ".")
         IN IF Contains(k, ".") /\ ToLowerChars(mycluster) # Str_default
            THEN DiscoverLoopNoMap(m, i + 1, Append(found, DiscoverName(mycluster)))
            ELSE DiscoverLoopNoMap(m, i + 1, found)

\* lines 195-213: the loop over the keys; found is the discoveries slice,
\* which holds the keys of the clusterDiscovery map in the order they came
RECURSIVE DiscoverLoop(_, _, _)
DiscoverLoop(m, i, found) ==
    IF i > Len(m) THEN found
    ELSE LET k == m[i]
             mycluster == SplitFirst(k, ".")
             name == DiscoverName(mycluster)
             ok == \E j \in 1..Len(found) : found[j] = name
         IN IF Contains(k, ".") /\ ToLowerChars(mycluster) # Str_default /\ ~ok
            THEN DiscoverLoop(m, i + 1, Append(found, name))
            ELSE DiscoverLoop(m, i + 1, found)

\* DiscoverClusters, lines 189-216, called once by InitConfig (line 468)
DiscoverClusters ==
    /\ dpc = "idle"
    /\ \E m \in Orders(AllKeysLower(FirstRead)) :
          /\ discoveries' = DiscoverLoop(m, 1, <<>>)
          /\ discovered' = Join(discoveries', ",")
    /\ dpc' = "done"
    /\ UNCHANGED FirstRead

InitDiscover ==
    /\ FirstRead \in {v \in SUBSET ConfigKeys : Cardinality(v) <= MaxKeys}
    /\ dpc = "idle"
    /\ discoveries = <<>>
    /\ discovered = <<>>

IdleDiscover ==
    /\ FirstRead = {}
    /\ dpc = "idle"
    /\ discoveries = <<>>
    /\ discovered = <<>>

(***************************************************************************)
(* validateTokenMiddleware on its own (api.go, lines 563-583)              *)
(***************************************************************************)
MaxRequests == 4

\* what request.ParseFromRequest can hand back: an error (no header, a token
\* that does not decode, a signature or an expiry that does not verify, no
\* verification key), a valid token, or a token without error whose Valid
\* field is false
ParseOutcomes ==
    {[err |-> TRUE, Valid |-> FALSE],
     [err |-> FALSE, Valid |-> TRUE],
     [err |-> FALSE, Valid |-> FALSE]}

\* the status a protected handler answers with once it is called
HandlerStatus == 200

\* validateTokenMiddleware, lines 572-582, for one request
MiddlewareServe(parsed) ==
    IF MiddlewareCallsNext(parsed)
    THEN [parsed |-> parsed, next |-> TRUE, code |-> HandlerStatus]
    ELSE [parsed |-> parsed, next |-> FALSE, code |-> 401]

\* a request reaches a route behind validateTokenMiddleware
ServeProtected ==
    /\ Len(mwLog) < MaxRequests
    /\ \E parsed \in ParseOutcomes : mwLog' = Append(mwLog, MiddlewareServe(parsed))

InitToken == mwLog = <<>>

IdleToken == mwLog = <<>>

vars == <<varsProxy, MaxFail, varsStart, Clusters, varsHb, varsFo, varsConfig,
          varsRun, varsApi, varsPeer, varsDisc, varsMw>>

(***************************************************************************)
(* Specifications                                                          *)
(***************************************************************************)
InitSpecProxy == InitProxy /\ IdleHb /\ IdleFailover /\ IdleConfig /\ IdleRun /\ IdleApi /\ IdlePeerRequest /\ IdleDiscover /\ IdleToken

NextProxy ==
    \/ refreshProxies /\ UNCHANGED <<MaxFail, varsStart, Clusters, varsHb, varsFo, varsConfig, varsRun, varsApi, varsPeer, varsDisc, varsMw>>
    \/ failoverProxies /\ UNCHANGED <<MaxFail, varsStart, Clusters, varsHb, varsFo, varsConfig, varsRun, varsApi, varsPeer, varsDisc, varsMw>>

SpecProxy == InitSpecProxy /\ [][NextProxy]_vars

InitSpecHeartbeat == InitHb /\ IdleProxy /\ MaxFail = 1 /\ IdleFailover /\ IdleConfig /\ IdleRun /\ IdleApi /\ IdlePeerRequest /\ IdleDiscover /\ IdleToken

NextHeartbeat ==
    \/ HeartbeatArbitrator /\ UNCHANGED <<varsProxy, MaxFail, varsStart, varsFo, varsConfig, varsRun, varsApi, varsPeer, varsDisc, varsMw>>
    \/ HeartbeatNoPeer /\ UNCHANGED <<varsProxy, MaxFail, varsStart, varsFo, varsConfig, varsRun, varsApi, varsPeer, varsDisc, varsMw>>
    \/ HeartbeatBegin /\ UNCHANGED <<varsProxy, MaxFail, varsStart, varsFo, varsConfig, varsRun, varsApi, varsPeer, varsDisc, varsMw>>
    \/ HeartbeatPeer /\ UNCHANGED <<varsProxy, MaxFail, varsStart, varsFo, varsConfig, varsRun, varsApi, varsPeer, varsDisc, varsMw>>
    \/ HeartbeatPropagate /\ UNCHANGED <<varsProxy, MaxFail, varsStart, varsFo, varsConfig, varsRun, varsApi, varsPeer, varsDisc, varsMw>>

SpecHeartbeat == InitSpecHeartbeat /\ [][NextHeartbeat]_vars

InitSpecStart == InitStart /\ IdleProxy /\ MaxFail = 1 /\ IdleHbVars /\ IdleFailover /\ IdleConfig /\ IdleRun /\ IdleApi /\ IdlePeerRequest /\ IdleDiscover /\ IdleToken

NextStart ==
    RunStartLoop /\ UNCHANGED <<varsProxy, MaxFail, varsHb, varsFo, varsConfig, varsRun, varsApi, varsPeer, varsDisc, varsMw>>

SpecStart == InitSpecStart /\ [][NextStart]_vars

InitSpecFailover == MaxFail = 2 /\ InitFailover /\ IdleProxy /\ IdleHb /\ IdleConfig /\ IdleRun /\ IdleApi /\ IdlePeerRequest /\ IdleDiscover /\ IdleToken

NextFailover ==
    \/ MonitorTick /\ UNCHANGED <<varsProxy, MaxFail, varsStart, Clusters, varsHb, varsConfig, varsRun, varsApi, varsPeer, varsDisc, varsMw>>
    \/ Switchover /\ UNCHANGED <<varsProxy, MaxFail, varsStart, Clusters, varsHb, varsConfig, varsRun, varsApi, varsPeer, varsDisc, varsMw>>
    \/ PropagateSplitBrain /\ UNCHANGED <<varsProxy, MaxFail, varsStart, Clusters, varsHb, varsConfig, varsRun, varsApi, varsPeer, varsDisc, varsMw>>
    \/ ExecElect /\ UNCHANGED <<varsProxy, MaxFail, varsStart, Clusters, varsHb, varsConfig, varsRun, varsApi, varsPeer, varsDisc, varsMw>>
    \/ ExecPromote /\ UNCHANGED <<varsProxy, MaxFail, varsStart, Clusters, varsHb, varsConfig, varsRun, varsApi, varsPeer, varsDisc, varsMw>>
    \/ ExecStepFails /\ UNCHANGED <<varsProxy, MaxFail, varsStart, Clusters, varsHb, varsConfig, varsRun, varsApi, varsPeer, varsDisc, varsMw>>
    \/ ExecFinish /\ UNCHANGED <<varsProxy, MaxFail, varsStart, Clusters, varsHb, varsConfig, varsRun, varsApi, varsPeer, varsDisc, varsMw>>

SpecFailover == InitSpecFailover /\ [][NextFailover]_vars

InitSpecFailoverTest == MaxFail = 2 /\ InitFailoverTest /\ IdleProxy /\ IdleHb /\ IdleConfig /\ IdleRun /\ IdleApi /\ IdlePeerRequest /\ IdleDiscover /\ IdleToken

NextFailoverTest ==
    \/ testFailOverNoRplChecksNoSemiSync
         /\ UNCHANGED <<varsProxy, MaxFail, varsStart, Clusters, varsHb, varsConfig, varsRun, varsApi, varsPeer, varsDisc, varsMw>>
    \/ waitFailoverEnd /\ UNCHANGED <<varsProxy, MaxFail, varsStart, Clusters, varsHb, varsConfig, varsRun, varsApi, varsPeer, varsDisc, varsMw>>
    \/ PropagateSplitBrain /\ UNCHANGED <<varsProxy, MaxFail, varsStart, Clusters, varsHb, varsConfig, varsRun, varsApi, varsPeer, varsDisc, varsMw>>
    \/ ExecElect /\ UNCHANGED <<varsProxy, MaxFail, varsStart, Clusters, varsHb, varsConfig, varsRun, varsApi, varsPeer, varsDisc, varsMw>>
    \/ ExecPromote /\ UNCHANGED <<varsProxy, MaxFail, varsStart, Clusters, varsHb, varsConfig, varsRun, varsApi, varsPeer, varsDisc, varsMw>>
    \/ ExecStepFails /\ UNCHANGED <<varsProxy, MaxFail, varsStart, Clusters, varsHb, varsConfig, varsRun, varsApi, varsPeer, varsDisc, varsMw>>
    \/ ExecFinish /\ UNCHANGED <<varsProxy, MaxFail, varsStart, Clusters, varsHb, varsConfig, varsRun, varsApi, varsPeer, varsDisc, varsMw>>

SpecFailoverTest == InitSpecFailoverTest /\ [][NextFailoverTest]_vars

InitSpecConfig ==
    MaxFail = 1 /\ InitConfigVars /\ IdleProxy /\ IdleHb /\ IdleFailover /\ IdleRun
    /\ IdleApi /\ IdlePeerRequest /\ IdleDiscover /\ IdleToken

NextConfig ==
    \/ InitConfig /\ UNCHANGED <<varsProxy, MaxFail, varsStart, Clusters, varsHb, varsFo, varsRun, varsApi, varsPeer, varsDisc, varsMw>>
    \/ GetClusterConfig
         /\ UNCHANGED <<varsProxy, MaxFail, varsStart, Clusters, varsHb, varsFo, varsRun, varsApi, varsPeer, varsDisc, varsMw>>

SpecConfig == InitSpecConfig /\ [][NextConfig]_vars

InitSpecRun ==
    MaxFail = 1 /\ InitRun /\ IdleProxy /\ IdleFailover /\ IdleConfig /\ IdleApi
    /\ IdlePeerRequest /\ IdleDiscover /\ IdleToken

NextRun ==
    \/ RunSetStatus /\ UNCHANGED <<varsProxy, MaxFail, varsFo, varsConfig, varsApi, varsPeer, varsDisc, varsMw>>
    \/ RunApiServer /\ UNCHANGED <<varsProxy, MaxFail, varsFo, varsConfig, varsApi, varsPeer, varsDisc, varsMw>>
    \/ RunRangeClusterList /\ UNCHANGED <<varsProxy, MaxFail, varsFo, varsConfig, varsApi, varsPeer, varsDisc, varsMw>>
    \/ RunStartCluster /\ UNCHANGED <<varsProxy, MaxFail, varsFo, varsConfig, varsApi, varsPeer, varsDisc, varsMw>>
    \/ RunGitPullTask /\ UNCHANGED <<varsProxy, MaxFail, varsFo, varsConfig, varsApi, varsPeer, varsDisc, varsMw>>
    \/ RunIsStarted /\ UNCHANGED <<varsProxy, MaxFail, varsFo, varsConfig, varsApi, varsPeer, varsDisc, varsMw>>
    \/ RunHeartbeatArbitrator /\ UNCHANGED <<varsProxy, MaxFail, varsFo, varsConfig, varsApi, varsPeer, varsDisc, varsMw>>
    \/ RunHeartbeatNoPeer /\ UNCHANGED <<varsProxy, MaxFail, varsFo, varsConfig, varsApi, varsPeer, varsDisc, varsMw>>
    \/ RunHeartbeatBegin /\ UNCHANGED <<varsProxy, MaxFail, varsFo, varsConfig, varsApi, varsPeer, varsDisc, varsMw>>
    \/ RunHeartbeatPeer /\ UNCHANGED <<varsProxy, MaxFail, varsFo, varsConfig, varsApi, varsPeer, varsDisc, varsMw>>
    \/ RunHeartbeatPropagate /\ UNCHANGED <<varsProxy, MaxFail, varsFo, varsConfig, varsApi, varsPeer, varsDisc, varsMw>>
    \/ RunLeave /\ UNCHANGED <<varsProxy, MaxFail, varsFo, varsConfig, varsApi, varsPeer, varsDisc, varsMw>>
    \/ GitPullDiscover /\ UNCHANGED <<varsProxy, MaxFail, varsFo, varsConfig, varsApi, varsPeer, varsDisc, varsMw>>
    \/ SignalStop /\ UNCHANGED <<varsProxy, MaxFail, varsFo, varsConfig, varsApi, varsPeer, varsDisc, varsMw>>
    \/ SignalExit /\ UNCHANGED <<varsProxy, MaxFail, varsFo, varsConfig, varsApi, varsPeer, varsDisc, varsMw>>
    \/ ServeStatus /\ UNCHANGED <<varsProxy, MaxFail, varsFo, varsConfig, varsApi, varsPeer, varsDisc, varsMw>>
    \/ ServeHeartbeat /\ UNCHANGED <<varsProxy, MaxFail, varsFo, varsConfig, varsApi, varsPeer, varsDisc, varsMw>>
    \/ ServePrometheus /\ UNCHANGED <<varsProxy, MaxFail, varsFo, varsConfig, varsApi, varsPeer, varsDisc, varsMw>>
    \/ ServeMonitor /\ UNCHANGED <<varsProxy, MaxFail, varsFo, varsConfig, varsApi, varsPeer, varsDisc, varsMw>>

SpecRun == InitSpecRun /\ [][NextRun]_vars

InitSpecLogin ==
    MaxFail = 1 /\ IdleApi /\ IdleProxy /\ IdleHb /\ IdleFailover /\ IdleConfig
    /\ IdleRun /\ IdlePeerRequest /\ IdleDiscover /\ IdleToken

NextLogin ==
    \/ ServeLogin /\ UNCHANGED <<varsProxy, MaxFail, varsStart, Clusters, varsHb, varsFo, varsConfig, varsRun, varsPeer, varsDisc, varsMw>>
    \/ ServeLoginBadRequest /\ UNCHANGED <<varsProxy, MaxFail, varsStart, Clusters, varsHb, varsFo, varsConfig, varsRun, varsPeer, varsDisc, varsMw>>

SpecLogin == InitSpecLogin /\ [][NextLogin]_vars

InitSpecPeerRequest ==
    MaxFail = 1 /\ InitPeerRequest /\ IdleProxy /\ IdleHb /\ IdleFailover
    /\ IdleConfig /\ IdleRun /\ IdleApi /\ IdleDiscover /\ IdleToken

NextPeerRequest ==
    \/ PeerRequestSend /\ UNCHANGED <<varsProxy, MaxFail, varsStart, Clusters, varsHb, varsFo, varsConfig, varsRun, varsApi, varsDisc, varsMw>>
    \/ SecondPasses /\ UNCHANGED <<varsProxy, MaxFail, varsStart, Clusters, varsHb, varsFo, varsConfig, varsRun, varsApi, varsDisc, varsMw>>
    \/ PeerAnswers /\ UNCHANGED <<varsProxy, MaxFail, varsStart, Clusters, varsHb, varsFo, varsConfig, varsRun, varsApi, varsDisc, varsMw>>
    \/ PeerRefuses /\ UNCHANGED <<varsProxy, MaxFail, varsStart, Clusters, varsHb, varsFo, varsConfig, varsRun, varsApi, varsDisc, varsMw>>
    \/ ClientTimeout /\ UNCHANGED <<varsProxy, MaxFail, varsStart, Clusters, varsHb, varsFo, varsConfig, varsRun, varsApi, varsDisc, varsMw>>
    \/ RoundEnds /\ UNCHANGED <<varsProxy, MaxFail, varsStart, Clusters, varsHb, varsFo, varsConfig, varsRun, varsApi, varsDisc, varsMw>>

SpecPeerRequest == InitSpecPeerRequest /\ [][NextPeerRequest]_vars

InitSpecDiscover ==
    MaxFail = 1 /\ InitDiscover /\ IdleProxy /\ IdleHb /\ IdleFailover
    /\ IdleConfig /\ IdleRun /\ IdleApi /\ IdlePeerRequest /\ IdleToken

NextDiscover ==
    DiscoverClusters /\ UNCHANGED <<varsProxy, MaxFail, varsStart, Clusters, varsHb, varsFo, varsConfig, varsRun, varsApi, varsPeer, varsMw>>

SpecDiscover == InitSpecDiscover /\ [][NextDiscover]_vars

InitSpecToken ==
    MaxFail = 1 /\ InitToken /\ IdleProxy /\ IdleHb /\ IdleFailover
    /\ IdleConfig /\ IdleRun /\ IdleApi /\ IdlePeerRequest /\ IdleDiscover

NextToken ==
    ServeProtected /\ UNCHANGED <<varsProxy, MaxFail, varsStart, Clusters, varsHb, varsFo, varsConfig, varsRun, varsApi, varsPeer, varsDisc>>

SpecToken == InitSpecToken /\ [][NextToken]_vars

(***************************************************************************)
(* Claims about refreshProxies (SpecProxy)                                 *)
(***************************************************************************)

\* C1: after max-fail consecutive refreshProxies passes in which a proxy's
\* Refresh returned an error, that proxy's state is failed.
C1_FailedAfterMaxFailErrors ==
    \A i \in 1..Len(Proxies) :
        errRun[i] >= MaxFail => Proxies[i].State = stateFailed

\* C2: each refreshProxies pass in which a proxy's Refresh returns an error
\* leaves that proxy's fail-count exactly one greater than before the pass.
C2_FailCountIncrementsOnError ==
    [][passes' # passes =>
          \A i \in 1..Len(Proxies) :
              lastErr'[i] => Proxies'[i].FailCount = Proxies[i].FailCount + 1]_vars

\* C21: each proxy's state is one of suspect, running or failed, and before
\* the first refreshProxies pass every proxy is in state suspect with
\* fail-count 0.
C21_ProxyStates ==
    \A i \in 1..Len(Proxies) :
        /\ Proxies[i].State \in {stateSuspect, stateProxyRunning, stateFailed}
        /\ passes = 0 => (Proxies[i].State = stateSuspect /\ Proxies[i].FailCount = 0)

\* after some passes one proxy is running and another has been declared failed
C21_Witness ==
    /\ passes > 0
    /\ \E i, j \in 1..Len(Proxies) :
          /\ Proxies[i].State = stateProxyRunning
          /\ Proxies[j].State = stateFailed

\* C22: a call of failoverProxies invokes Failover exactly once on every
\* proxy of the list, in list order, whatever the state of the proxy.
C22_FailoverOnEveryProxy ==
    [][failoverCalls' # failoverCalls =>
          /\ Len(failoverLog') = Len(Proxies)
          /\ \A i \in 1..Len(Proxies) : failoverLog'[i].proxy = i]_vars

\* failoverProxies has run over a list of two proxies, one of them failed
C22_Witness ==
    /\ failoverCalls > 0
    /\ Len(failoverLog) = 2
    /\ \E i \in 1..Len(failoverLog) : failoverLog[i].failed
    /\ \E i \in 1..Len(failoverLog) : ~failoverLog[i].failed

(***************************************************************************)
(* Claims about Heartbeat (SpecHeartbeat)                                  *)
(***************************************************************************)

\* A well-formed heartbeat that reports cluster c up with another primary
\* than the local one.
Conflicting(reply, c) ==
    /\ reply.kind = "heartbeat"
    /\ reply.Cluster = c
    /\ reply.Failed < reply.Hosts
    /\ reply.Master # Clusters[c].master

\* C3: when a peer answered the round's request with a well-formed heartbeat
\* that reports the same cluster up with a different primary, the Heartbeat
\* round leaves the split-brain flag of that cluster true.
C3_ConflictingPeerSetsSplitBrain ==
    hbpc = "ended" =>
        \A c \in DOMAIN Clusters :
            (\E i \in 1..Len(hbReplies) : Conflicting(hbReplies[i], c))
                => SplitBrain /\ Clusters[c].IsSplitBrain

\* C24: when a Heartbeat round that asked the peers has ended, every cluster
\* of the registry has IsSplitBrain equal to the supervisor's SplitBrain.
C24_FlagPropagated ==
    hbpc = "ended" =>
        \A c \in DOMAIN Clusters : Clusters[c].IsSplitBrain = SplitBrain

\* a round has ended with the flag raised on two clusters
C24_Witness ==
    /\ hbpc = "ended"
    /\ SplitBrain
    /\ Cardinality(DOMAIN Clusters) = 2
    /\ \A c \in DOMAIN Clusters : Clusters[c].IsSplitBrain

\* C25: after a round over the configured peers, the split-brain flag is true
\* only if no peer returned a well-formed heartbeat, whatever the order of
\* the peer list.
C25_FlagAccountsForAllPeers ==
    hbpc = "ended" =>
        (SplitBrain =>
            \A i \in 1..Len(hbReplies) : hbReplies[i].kind \in ReplyErrors)

\* a call of Heartbeat has just returned or started a round
HeartbeatCalled == hbLast' # hbLast

\* once arbitration is off the main loop calls Heartbeat no more
NoHeartbeatWithoutArbitration ==
    ~Arbitration => (hbLast' = hbLast /\ hbpc' = hbpc /\ ~Arbitration')

\* C26 as stated: with arbitration enabled and no peer host, the first call
\* of Heartbeat disables arbitration, leaves SplitBrain and every cluster's
\* IsSplitBrain as they are, and no heartbeat is sent afterwards.
C26_NoPeerDisablesArbitration ==
    [][/\ (Arbitration /\ ArbitrationPeerHosts = <<>> /\ HeartbeatCalled) =>
             (~Arbitration' /\ SplitBrain' = SplitBrain /\ Clusters' = Clusters)
       /\ NoHeartbeatWithoutArbitration]_vars

\* C26, for a supervisor whose configuration group is not "arbitrator": with
\* arbitration enabled and no peer host, the first call of Heartbeat disables
\* arbitration, leaves SplitBrain and every cluster's IsSplitBrain as they
\* are, and no heartbeat is sent afterwards.
C26_NoPeerDisablesUnlessArbitrator ==
    [][/\ ( /\ Arbitration /\ ArbitrationPeerHosts = <<>>
            /\ cfgGroup # "arbitrator" /\ HeartbeatCalled ) =>
             (~Arbitration' /\ SplitBrain' = SplitBrain /\ Clusters' = Clusters)
       /\ NoHeartbeatWithoutArbitration]_vars

\* Heartbeat found no peer and switched arbitration off
C26_Witness ==
    /\ hbLast = "nopeer"
    /\ ~Arbitration
    /\ ArbitrationPeerHosts = <<>>
    /\ Clusters # <<>>

\* C27: a supervisor whose status is standby has arbitration enabled.
C27_StandbyHasArbitration ==
    Status = ConstMonitorStandby => Arbitration

(***************************************************************************)
(* Claims about the peer requests (SpecPeerRequest)                        *)
(***************************************************************************)

\* C23: a peer heartbeat request is answered or abandoned at most
\* 4 * monitoring-ticker seconds after it was sent, for every value of the
\* monitoring ticker and whatever the peer does.
C23_RequestBounded ==
    reqpc = "pending" => waited <= 4 * MonitoringTicker

(***************************************************************************)
(* Claims about DiscoverClusters (SpecDiscover)                            *)
(***************************************************************************)

\* the elements of a separated list
RECURSIVE Elements(_, _)
Elements(str, sep) ==
    IF str = <<>> THEN <<>>
    ELSE IF Contains(str, sep)
         THEN <<SplitFirst(str, sep)>>
                  \o Elements(SubSeq(str, Len(SplitFirst(str, sep)) + 2, Len(str)), sep)
         ELSE <<str>>

\* the section names of the merged configuration: what precedes the first
\* dot of a key that has one
ReadSections == {SplitFirst(k, ".") : k \in {q \in AllKeysLower(FirstRead) : Contains(q, ".")}}

\* the cluster a section stands for: saved-X stands for X
ClusterOf(section) ==
    IF Len(section) >= Len(Str_saved)
         /\ \A i \in 1..Len(Str_saved) : section[i] = Str_saved[i]
    THEN [i \in 1..(Len(section) - Len(Str_saved)) |-> section[i + Len(Str_saved)]]
    ELSE section

\* C28: the string DiscoverClusters returns is a comma-separated list in
\* which the cluster of every section other than default appears exactly
\* once, saved-X standing for cluster X, and in which nothing else appears.
C28_EverySectionOnce ==
    dpc = "done" =>
        LET list == Elements(discovered, ",")
        IN /\ \A section \in ReadSections \ {Str_default} :
                 Cardinality({i \in 1..Len(list) : list[i] = ClusterOf(section)}) = 1
           /\ \A i \in 1..Len(list) :
                 \E section \in ReadSections \ {Str_default} : list[i] = ClusterOf(section)

\* a configuration with c1, saved-c1 and c2 sections gave a list of two names
C28_Witness ==
    /\ dpc = "done"
    /\ {Str_c1, Str_saved \o Str_c1, Str_c2} \subseteq ReadSections
    /\ Len(Elements(discovered, ",")) = 2

\* C29: the list DiscoverClusters returns never holds the name default, in
\* any letter case, also when the configuration has a saved-default section.
C29_NeverDefault ==
    dpc = "done" =>
        \A i \in 1..Len(Elements(discovered, ",")) :
            ToLowerChars(Elements(discovered, ",")[i]) # Str_default

(***************************************************************************)
(* Claims about validateTokenMiddleware (SpecToken)                        *)
(***************************************************************************)

\* C32: validateTokenMiddleware calls the next handler if and only if the
\* token of the request parsed without error and is valid; for every other
\* request it answers 401 and does not call the next handler.
C32_NextIffValidToken ==
    \A i \in 1..Len(mwLog) :
        /\ mwLog[i].next <=> (~mwLog[i].parsed.err /\ mwLog[i].parsed.Valid)
        /\ ~(~mwLog[i].parsed.err /\ mwLog[i].parsed.Valid) =>
               (mwLog[i].code = 401 /\ ~mwLog[i].next)

\* the middleware has let a valid token through, and has answered 401 to a
\* request whose token did not parse and to one whose token is not valid
C32_Witness ==
    /\ \E i \in 1..Len(mwLog) : mwLog[i].next
    /\ \E i \in 1..Len(mwLog) : mwLog[i].parsed.err /\ mwLog[i].code = 401
    /\ \E i \in 1..Len(mwLog) :
          ~mwLog[i].parsed.err /\ ~mwLog[i].parsed.Valid /\ mwLog[i].code = 401

(***************************************************************************)
(* Claims about failure detection and the executor (SpecFailover,          *)
(* SpecFailoverTest)                                                       *)
(***************************************************************************)

\* C4: while the cluster's is-split-brain flag is true no failover is
\* started, even when its primary is down.
C4_NoFailoverWhileSplitBrain ==
    [][("failover" \in runs' /\ "failover" \notin runs) => ~IsSplitBrain]_vars

\* a tick found the primary down with every other precondition met and
\* refused the failover for split brain alone
C4_Witness ==
    /\ IsSplitBrain
    /\ servers[master].State = stateFailed
    /\ events = {"WARN0079"}
    /\ runs = {}

FailoverSucceeds == "failover" \in runs /\ execPc = "finish" /\ runs' = {}

\* C6: the failover counter increases by exactly 1 in the step that completes
\* a successful failover and is unchanged by every other step (aborted and
\* refused failovers included).
C6_CounterCountsSuccessfulFailovers ==
    [][failoverCtr' = IF FailoverSucceeds THEN failoverCtr + 1 ELSE failoverCtr]_vars

\* one failover succeeded and a later one was refused or aborted
C6_Witness ==
    /\ failoverCtr = 1
    /\ events \cap {"ERR00027", "ERR00029", "ERR00032", "step-failed"} # {}

\* C7: at no time are two executor runs in progress, and a monitor tick that
\* arrives while a run holds the action lock changes nothing of the cluster.
C7_ExecutorExclusion ==
    [][/\ Cardinality(runs') <= 1
       /\ (runs # {} /\ tickBit' # tickBit) => UNCHANGED <<varsCluster, varsExec>>]_vars

\* a tick or a request arrived while a run held the lock and was frozen
C7_Witness ==
    /\ runs # {}
    /\ events = {"ERR00001"}

\* The failover the tick evaluated was refused: no run, no promotion, the
\* counter as it was and the cluster still down.
Refused ==
    /\ runs' = {}
    /\ master' = master
    /\ failoverCtr' = failoverCtr
    /\ ClusterState(servers', master', runs') = "down"

\* C8: a tick that finds the master failed while the failover counter has
\* reached fail-limit refuses the failover with ERR00027, one that finds it
\* failed less than time-between-failovers after the last failover refuses
\* it with ERR00029.
C8_CircuitBreakerRefuses ==
    [][(tickBit' # tickBit /\ runs = {} /\ servers'[master].State = stateFailed) =>
          /\ failoverCtr >= FailLimit => ("ERR00027" \in events' /\ Refused)
          /\ sinceFailover' < FailTime => ("ERR00029" \in events' /\ Refused)]_vars

C8_Witness ==
    /\ {"ERR00027", "ERR00029"} \subseteq events
    /\ failoverCtr >= FailLimit
    /\ sinceFailover < FailTime
    /\ servers[master].State = stateFailed
    /\ runs = {}

(***************************************************************************)
(* Claims about the tasks of Run (SpecRun)                                 *)
(***************************************************************************)

\* C11: whenever the API server task runs, the status a heartbeat reports is
\* "A" or "S": "S" if arbitration is enabled (or was, until Heartbeat found no
\* peer to ask), "A" otherwise, and it was set before the task was started.
C11_StatusSetBeforeApi ==
    apiserver =>
        /\ Status \in {ConstMonitorActif, ConstMonitorStandby}
        /\ served.path = "/api/heartbeat" => served.body = Status
        /\ Arbitration => Status = ConstMonitorStandby
        /\ Status = ConstMonitorStandby => (Arbitration \/ ArbitrationPeerHosts = <<>>)

\* a heartbeat served "S" while Run was still starting the clusters
C11_Witness ==
    /\ served.path = "/api/heartbeat"
    /\ served.body = ConstMonitorStandby
    /\ rpc = "startloop"
    /\ Arbitration

\* C12: every read and every write of the cluster registry made once Run has
\* started its tasks (main loop, git-pull task, signal handler, API handlers)
\* is made while holding the supervisor mutex.
C12_RegistryAccessesLocked ==
    \A a \in accesses :
        (a.var = "Clusters" /\ a.task # "init") => a.locked

\* C13: every write and every read of repman.SplitBrain that Heartbeat makes
\* is made while holding the supervisor mutex.
C13_SplitBrainAccessesLocked ==
    \A a \in accesses :
        (a.var = "SplitBrain" /\ a.task # "init") => a.locked

\* C14: StartCluster is invoked at most once per cluster name, so no two
\* monitor tasks were started for the same name.
C14_OneStartPerName ==
    \A i, j \in 1..Len(monitorTasks) :
        monitorTasks[i] = monitorTasks[j] => i = j

\* C15: when the exit flag is set after an interrupt, Stop has been called
\* on every cluster the registry holds.
C15_AllStoppedBeforeExit ==
    [][(~exit /\ exit') => DOMAIN Clusters \subseteq stopped]_vars

\* StartCluster has been called for every name of the initial cluster list.
AllStarted ==
    \A i \in 1..Len(initialList) :
        \E k \in 1..Len(monitorTasks) : monitorTasks[k] = initialList[i]

\* the last reply is an answer of /api/status with this body
Answers(body) == served.path = "/api/status" /\ served.body = body

\* C20: /api/status answers "running" only once StartCluster has been called
\* for every name of the initial cluster list, and after it has answered
\* "running" it never answers "starting".
C20_RunningOnlyAfterStart ==
    [][/\ Answers("running")' => AllStarted'
       /\ isStarted => isStarted' /\ ~Answers("starting")'
       /\ Answers("running")' => isStarted']_vars

\* C19: a request for /api/monitor without a valid token is answered 401 by
\* validateTokenMiddleware and does not reach handlerMuxReplicationManager.
C19_MonitorNeedsToken ==
    (served.path = "/api/monitor" /\ served.token # "valid") =>
        (served.code = 401 /\ served.handler = "none")

(***************************************************************************)
(* Claims about loginHandler (SpecLogin)                                   *)
(***************************************************************************)

\* the attempts of user that lie strictly between the entries i and k
Between(user, i, k) ==
    {x \in DOMAIN loginLog : i < x /\ x < k /\ loginLog[x].user = user}

\* the attempts of user before the entry i
Before(user, i) == {x \in DOMAIN loginLog : x < i /\ loginLog[x].user = user}

\* i, j, k are three failed attempts in a row of one user, the first of them
\* the user's first attempt or the one that follows a successful login
FailedRun(i, j, k) ==
    /\ i < j /\ j < k
    /\ loginLog[j].user = loginLog[i].user
    /\ loginLog[k].user = loginLog[i].user
    /\ loginLog[i].code = 403 /\ loginLog[j].code = 403 /\ loginLog[k].code = 403
    /\ Between(loginLog[i].user, i, k) = {j}
    /\ \A x \in Before(loginLog[i].user, i) :
          (\A y \in Before(loginLog[i].user, i) : y <= x) => loginLog[x].code = 200

\* C16: after three failed attempts of a user, every further attempt of that
\* user within LockMinutes of the third failed attempt is answered 429.
C16_LockedAfterThirdFailure ==
    \A i, j, k, m \in DOMAIN loginLog :
        ( /\ FailedRun(i, j, k)
          /\ k < m
          /\ loginLog[m].user = loginLog[k].user
          /\ loginLog[m].t < loginLog[k].t + LockMinutes
          /\ \A x \in Between(loginLog[k].user, k, m) : loginLog[x].code = 429 )
        => loginLog[m].code = 429

\* the credential checks of user before the entry m: the attempts answered
\* 200 or 403
Checks(user, m) == {x \in Before(user, m) : loginLog[x].code \in {200, 403}}

\* the three most recent credential checks of user before the entry m
Recent(user, m) ==
    {x \in Checks(user, m) :
        Cardinality({y \in Checks(user, m) : y > x}) < MaxTry}

\* C17: an attempt is answered 429 only if the three most recent credential
\* checks for the username all failed.
C17_LockedOnlyAfterThreeFailures ==
    \A m \in DOMAIN loginLog :
        loginLog[m].code = 429 =>
            /\ Cardinality(Recent(loginLog[m].user, m)) = MaxTry
            /\ \A x \in Recent(loginLog[m].user, m) : loginLog[x].code = 403

\* C18: an attempt of a locked-out user made LockMinutes or more after the
\* recorded time is not answered 429: the credentials are checked and the
\* counter becomes 1 with the time of this attempt.
C18_LockoutExpires ==
    [][\A user \in DOMAIN UserAuthTry :
          ( /\ UserAuthTry[user].Try = MaxTry
            /\ Len(loginLog') = Len(loginLog) + 1
            /\ loginLog'[Len(loginLog')].user = user
            /\ now' >= UserAuthTry[user].Time + LockMinutes )
          => /\ loginLog'[Len(loginLog')].code =
                    IF loginLog'[Len(loginLog')].valid THEN 200 ELSE 403
             /\ UserAuthTry'[user] = authTry(1, now')]_vars

\* a user was locked out by three failures and a later attempt failed on the
\* credentials, not on the lockout
C18_Witness ==
    \E i, j, k, m \in DOMAIN loginLog :
        /\ FailedRun(i, j, k)
        /\ k < m
        /\ loginLog[m].user = loginLog[k].user
        /\ loginLog[m].t >= loginLog[i].t + LockMinutes
        /\ loginLog[m].code = 403
        /\ UserAuthTry[loginLog[m].user] = authTry(1, loginLog[m].t)

(***************************************************************************)
(* Claims about GetClusterConfig (SpecConfig)                              *)
(***************************************************************************)

\* the parameter a key of a section names
Canonical(k) == IF k = "maxdelay" THEN "failover-max-slave-delay" ELSE k

\* C9: in the configuration GetClusterConfig returns with config rewrite
\* enabled, the parameter of every key of the cluster's immutable flag map
\* holds an immutable value (the one the map gives the key, or the one of the
\* configuration before the saved section was read), never a saved one.
C9_ImmutableKeysKeepTheirValue ==
    (cpc = "done" /\ ConfRewrite) =>
        \A f \in DOMAIN ImmuableFlagMaps :
            VersionConfs.ConfInit[Canonical(f)]
                \in {ImmuableFlagMaps[f], VersionConfs.ConfImmuable[Canonical(f)]}

\* C30: after GetClusterConfig with config rewrite enabled, a key the
\* saved section gives a value is in the cluster's dynamic flag map if and
\* only if the immutable flag map does not hold the key or the saved value
\* differs from the immutable value.
C30_DynamicIffNewOrChanged ==
    (cpc = "done" /\ ConfRewrite) =>
        \A f \in DOMAIN fistRead.saved :
            f \in DOMAIN DynamicFlagMaps
                <=> \/ f \notin DOMAIN ImmuableFlagMaps
                    \/ fistRead.saved[f] # ImmuableFlagMaps[f]

\* C31 as stated: the immutable flag map of a cluster holds, for each key,
\* the value of the cluster's section if the key is set there, else the
\* command-line value, else the default-section value; a key set in none of
\* the three is absent.
C31_ImmutablePrecedence ==
    cpc = "done" =>
        \A k \in KeyNames :
            IF k \in DOMAIN fistRead.cluster
            THEN k \in DOMAIN ImmuableFlagMaps
                    /\ ImmuableFlagMaps[k] = fistRead.cluster[k]
            ELSE IF k \in CommandLineFlag
            THEN k \in DOMAIN ImmuableFlagMaps
                    /\ ImmuableFlagMaps[k] = fistRead.flags[k]
            ELSE IF k \in DOMAIN fistRead.default
            THEN k \in DOMAIN ImmuableFlagMaps
                    /\ ImmuableFlagMaps[k] = fistRead.default[k]
            ELSE k \notin DOMAIN ImmuableFlagMaps

\* the names of the parameter of a key: the key and its alias
ParamNames(k) == {n \in KeyNames : Canonical(n) = Canonical(k)}

\* the value a section gives a parameter: the one written under the alias
\* when the section has it, else the one written under the key
ParamValue(section, k) ==
    IF \E n \in ParamNames(k) \cap DOMAIN section : n # Canonical(n)
    THEN section[CHOOSE n \in ParamNames(k) \cap DOMAIN section : n # Canonical(n)]
    ELSE section[Canonical(k)]

\* C31, with a key and its alias taken as one parameter in the cluster's
\* section: the immutable flag map holds, for each key, the value the
\* cluster's section gives the key's parameter (the alias's value when the
\* section gives both names), else the command-line value of the key, else
\* the default-section value of the key; a key none of the three gives a
\* value is absent.
C31_ImmutablePrecedenceByParameter ==
    cpc = "done" =>
        \A k \in KeyNames :
            IF ParamNames(k) \cap DOMAIN fistRead.cluster # {}
            THEN k \in DOMAIN ImmuableFlagMaps
                    /\ ImmuableFlagMaps[k] = ParamValue(fistRead.cluster, k)
            ELSE IF k \in CommandLineFlag
            THEN k \in DOMAIN ImmuableFlagMaps
                    /\ ImmuableFlagMaps[k] = fistRead.flags[k]
            ELSE IF k \in DOMAIN fistRead.default
            THEN k \in DOMAIN ImmuableFlagMaps
                    /\ ImmuableFlagMaps[k] = fistRead.default[k]
            ELSE k \notin DOMAIN ImmuableFlagMaps

\* the cluster's section, the command line and the default section all set
\* failover-max-slave-delay, the section's value differs from the other two,
\* and the map holds the section's
C31_Witness ==
    /\ cpc = "done"
    /\ "failover-max-slave-delay" \in DOMAIN fistRead.cluster
    /\ "failover-max-slave-delay" \in CommandLineFlag
    /\ "failover-max-slave-delay" \in DOMAIN fistRead.default
    /\ "maxdelay" \notin DOMAIN fistRead.cluster
    /\ fistRead.cluster["failover-max-slave-delay"] # fistRead.flags["failover-max-slave-delay"]
    /\ fistRead.default["failover-max-slave-delay"] # fistRead.cluster["failover-max-slave-delay"]
    /\ ImmuableFlagMaps["failover-max-slave-delay"]
           = fistRead.cluster["failover-max-slave-delay"]

(***************************************************************************)
(* Claims about StartCluster (SpecStart)                                   *)
(***************************************************************************)

\* C10: a started cluster is in interactive mode if and only if its
\* failover-mode is exactly "manual".
C10_InteractiveIffManual ==
    \A n \in DOMAIN Clusters :
        Clusters[n].Conf.Interactive = (Confs[n].FailMode = "manual")

\* a cluster configured with a differently cased "Manual", and with
\* interactive set before, started with automatic failover permitted
C10_Witness ==
    \E n \in DOMAIN Clusters :
        /\ Confs[n].FailMode = "Manual"
        /\ Confs[n].Interactive
        /\ ~Clusters[n].Conf.Interactive

====
